---------------------------- MODULE Spec2Model ----------------------------
(***************************************************************************)
(* A model of neoscene's scene compiler: the layout engine                 *)
(* (_layout_instances) and the MJCF exporter (scene_to_mjcf with           *)
(* _load_asset_content), src/neoscene/exporters/mjcf_exporter.py; of the   *)
(* asset catalog, src/neoscene/core/asset_catalog.py; and of the           *)
(* validation of a scene, src/neoscene/core/scene_schema.py and            *)
(* src/neoscene/core/scene_agent.py.                                       *)
(*                                                                         *)
(* Coordinates and angles are integers.  Optional[T] is a set: {} is None  *)
(* and {v} is the value v.  Names are strings, joined as the f-strings of  *)
(* the source join them.  A fragment's element tree is the sequence of its *)
(* elements in document (pre-) order, which is the order collect_names and *)
(* rename_recursive visit them in.                                         *)
(***************************************************************************)
EXTENDS Integers, Sequences, FiniteSets, TLC

VARIABLES
    mode,              \* which function the caller calls: "layout" or "compile"
    seed,              \* the seed argument
    scene,             \* the SceneSpec argument of scene_to_mjcf
    call,              \* 1 during the first call, 2 during the repeated call
    first,             \* what the first call returned (Optional)
    pc,                \* the position in the code
    obj,               \* _layout_instances: the ObjectSpec argument
    instances,         \* _layout_instances: instances
    rng,               \* _layout_instances: the state of rng (Optional)
    row,               \* _layout_instances: row
    col,               \* _layout_instances: col
    i,                 \* _layout_instances: i
    attempt,           \* _layout_instances: draws made for point i
    x,                 \* _layout_instances: x
    y,                 \* _layout_instances: y
    placed_positions,  \* _layout_instances: placed_positions
    accepted,          \* history: per emitted random point, whether it left the loop by break
    asset,             \* scene_to_mjcf: the children of <asset>
    worldbody,         \* scene_to_mjcf: the children of <worldbody>
    all_sensors,       \* scene_to_mjcf: all_sensors
    oi,                \* scene_to_mjcf: how many of scene.objects are done
    expanded,          \* history: the instance list each object expanded to
    loads,             \* history: the prefix and outcome of each _load_asset_content call
    result,            \* scene_to_mjcf: the returned document (Optional)
    error,             \* the exception that left the call (Optional)
    manifests,         \* the manifest.json files under root_dir, in glob order
    scanned,           \* AssetCatalog._scan: how many of them the loop has handled
    by_id,             \* AssetCatalog._by_id
    paths,             \* AssetCatalog._paths
    summaries,         \* AssetCatalog._summaries
    by_category,       \* AssetCatalog._by_category
    by_tag,            \* AssetCatalog._by_tag
    by_fallback,       \* AssetCatalog._by_fallback
    cpc,               \* the position of the catalog's caller
    request,           \* the call made on the catalog, with its arguments (Optional)
    answer,            \* what that call returned or raised (Optional)
    running,           \* concurrent compiles: the thread that runs, 1 or 2
    other,             \* concurrent compiles: the frame of the thread that waits (Optional)
    interleaved        \* history: a switch happened while both threads held a generator

\* SceneAgent.generate_and_repair, src/neoscene/core/scene_agent.py
VARIABLES
    max_repair_attempts, \* SceneAgent.max_repair_attempts
    repair_attempt,    \* generate_and_repair: the loop variable attempt
    last_error,        \* generate_and_repair: last_error (Optional)
    llm_calls          \* history: the prompt and the response of each llm.generate call

\* RowNavigator, src/neoscene/core/row_navigator.py
VARIABLES
    cfg,               \* RowNavigator.config
    current_state,     \* NavigatorState.current_state
    current_row,       \* NavigatorState.current_row
    turn_direction,    \* NavigatorState.turn_direction
    state_timer,       \* NavigatorState.state_timer, in time steps
    lane_stable_count, \* NavigatorState.lane_stable_count
    last_lateral_error, \* NavigatorState.last_lateral_error
    going_forward,     \* NavigatorState.going_forward
    command            \* what the last step returned: <<v, omega>> (Optional)

\* TaskRunner, src/neoscene/backends/task_runner.py
VARIABLES
    active,            \* TaskRunner.active (Optional)
    ctrl,              \* data.ctrl of the left and of the right motor
    xpos,              \* the pose of the robot body: x, y and yaw
    stepped            \* what the last TaskRunner.step did: returned or raised (Optional)

\* SceneSessionManager, src/neoscene/backends/session_manager.py
VARIABLES
    session,           \* the SceneSession
    workers,           \* every SimulationWorker created, with the position of its thread
    files,             \* the temp files on disk
    viewers,           \* the viewer processes launched, each alive or not
    spc                \* the position of the caller of the session manager

layoutVars == <<obj, instances, rng, row, col, i, attempt, x, y, placed_positions, accepted>>
compileVars == <<asset, worldbody, all_sensors, oi, expanded, loads, result, error>>
callVars == <<mode, seed, scene, call, first>>
indexVars == <<by_id, paths, summaries, by_category, by_tag, by_fallback>>
catalogVars == <<manifests, scanned, indexVars, cpc, request, answer>>
threadVars == <<running, other, interleaved>>
agentVars == <<max_repair_attempts, repair_attempt, last_error, llm_calls>>
navigatorVars ==
    <<cfg, current_state, current_row, turn_direction, state_timer, lane_stable_count,
      last_lateral_error, going_forward, command>>
runnerVars == <<active, ctrl, xpos, stepped>>
sessionVars == <<session, workers, files, viewers, spc>>
extVars == <<agentVars, navigatorVars, runnerVars, sessionVars>>
vars == <<callVars, pc, layoutVars, compileVars, catalogVars, threadVars, extVars>>

None == {}
Some(v) == {v}
The(o) == CHOOSE v \in o : TRUE

(***************************************************************************)
(* Bounds of the explored inputs.                                          *)
(***************************************************************************)
MaxSeed == 3
MaxRows == 2
MaxCols == 2
MaxCount == 3

Seeds == 0..MaxSeed

(***************************************************************************)
(* random.Random: a linear congruential generator stands for the Mersenne  *)
(* Twister.  Every random() call advances the state once; the state is the *)
(* numerator of the fraction in [0, 1) the call returns.                   *)
(***************************************************************************)
RngModulus == 16
RngMult == 5
RngInc == 5

Random(s) == s % RngModulus

RngStep(s) == (RngMult * s + RngInc) % RngModulus

\* rng.uniform(a, b) = a + (b - a) * random(), for the state s that call left
Uniform(s, a, b) == a + ((b - a) * s) \div RngModulus

\* The angle drawn by uniform(0, 2*pi) is kept in quarter turns: 0, 1, 2, 3.
NumDirections == 4
Cos(a) == <<1, 0, -1, 0>>[a + 1]
Sin(a) == <<0, 1, 0, -1>>[a + 1]

\* math.sqrt(u) * radius for u = s / RngModulus, rounded down to an integer
SqrtTimes(s, radius) ==
    CHOOSE k \in 0..radius :
        /\ k * k * RngModulus <= radius * radius * s
        /\ (k + 1) * (k + 1) * RngModulus > radius * radius * s

max_attempts == 100

(***************************************************************************)
(* The scene schema, src/neoscene/core/scene_schema.py.                    *)
(***************************************************************************)
Pose(position, yaw) ==
    [position |-> position, yaw_deg |-> yaw, pitch_deg |-> 0, roll_deg |-> 0]

InstanceSpec(pose, name_suffix) == [pose |-> pose, name_suffix |-> name_suffix]

ObjectSpec(asset_id, name, layout, insts) ==
    [asset_id |-> asset_id, name |-> name, layout |-> layout, instances |-> insts]

GridLayouts ==
    [type : {"grid"}, origin : {<<0, 0, 0>>, <<1, -1, 2>>}, rows : 1..MaxRows,
     cols : 1..MaxCols, spacing : {<<1, 1>>, <<2, 3>>}, yaw_variation_deg : {0, 10}]

RandomLayouts ==
    [type : {"random"}, center : {<<5, 5, 1>>}, radius : {2, 3},
     count : 1..MaxCount, min_separation : {0, 3, 4}, random_yaw : BOOLEAN]

ExplicitLists ==
    { <<>>,
      <<InstanceSpec(Pose(<<5, 0, 0>>, 0), None)>>,
      <<InstanceSpec(Pose(<<1, 2, 3>>, 45), Some("a")),
        InstanceSpec(Pose(<<4, 5, 6>>, 0), None)>>,
      <<InstanceSpec(Pose(<<0, 0, 0>>, 0), Some("a")),
        InstanceSpec(Pose(<<2, 0, 0>>, 90), Some("a"))>> }

\* The ObjectSpecs a direct caller of _layout_instances passes.
LayoutObjects ==
    {ObjectSpec("crate", None, None, None)}
    \cup {ObjectSpec("crate", None, None, Some(l)) : l \in ExplicitLists}
    \cup {ObjectSpec("crate", None, Some(l), None) : l \in GridLayouts \cup RandomLayouts}

(***************************************************************************)
(* _layout_instances(obj, catalog, seed), one action per branch and per    *)
(* loop iteration.  Every path ends at "layout_return" with the returned   *)
(* list in instances.                                                      *)
(***************************************************************************)
NoLocals ==
    /\ instances = <<>> /\ rng = None /\ row = 0 /\ col = 0 /\ i = 0
    /\ attempt = 0 /\ x = 0 /\ y = 0 /\ placed_positions = <<>> /\ accepted = <<>>

\* a new call frame of _layout_instances
NewLocals ==
    /\ instances' = <<>> /\ rng' = None /\ row' = 0 /\ col' = 0 /\ i' = 0
    /\ attempt' = 0 /\ x' = 0 /\ y' = 0 /\ placed_positions' = <<>> /\ accepted' = <<>>

\* line 80-81: explicit instances are returned as they are
LayoutExplicit ==
    /\ pc = "layout"
    /\ obj.instances # None
    /\ instances' = The(obj.instances)
    /\ pc' = "layout_return"
    /\ UNCHANGED <<obj, rng, row, col, i, attempt, x, y, placed_positions, accepted>>
    /\ UNCHANGED <<callVars, compileVars>>
    /\ UNCHANGED <<catalogVars, threadVars, extVars>>

\* mutant: an object with neither layout nor instances expands to nothing
NoInstances == <<>>

\* line 85: [InstanceSpec(pose=Pose(position=[0.0, 0.0, 0.0]))]
DefaultInstances == <<InstanceSpec(Pose(<<0, 0, 0>>, 0), None)>>

\* line 84-85: neither instances nor layout: one instance at the origin
LayoutDefault ==
    /\ pc = "layout"
    /\ obj.instances = None
    /\ obj.layout = None
    /\ instances' = DefaultInstances
    /\ pc' = "layout_return"
    /\ UNCHANGED <<obj, rng, row, col, i, attempt, x, y, placed_positions, accepted>>
    /\ UNCHANGED <<callVars, compileVars>>
    /\ UNCHANGED <<catalogVars, threadVars, extVars>>

\* a generator seeded with something that changes from call to call
NewRandomPerCall(s) == Some(Random(s + call))

\* mutant: a generator seeded with the seed and the object's place in the scene
SeededByPlace(s) == Some(Random(s + oi))

\* line 91 and line 113: rng = random.Random(seed)
NewRandom(s) == Some(Random(s))

\* line 87-91: the grid branch is entered
LayoutGridBegin ==
    /\ pc = "layout"
    /\ obj.instances = None
    /\ obj.layout # None
    /\ The(obj.layout).type = "grid"
    /\ instances' = <<>>
    /\ rng' = NewRandom(seed)
    /\ row' = 0
    /\ col' = 0
    /\ pc' = "grid"
    /\ UNCHANGED <<obj, i, attempt, x, y, placed_positions, accepted>>
    /\ UNCHANGED <<callVars, compileVars>>
    /\ UNCHANGED <<catalogVars, threadVars, extVars>>

\* line 107: f"r{row}_c{col}"
GridSuffix(r, c) == "r" \o ToString(r) \o "_c" \o ToString(c)

\* a grid that steps x by the row and y by the column
GridPositionSwapped(layout, r, c) ==
    << layout.origin[1] + r * layout.spacing[1],
       layout.origin[2] + c * layout.spacing[2],
       layout.origin[3] >>

\* line 95-97: the position of the cell (row r, column c)
GridPosition(layout, r, c) ==
    << layout.origin[1] + c * layout.spacing[1],
       layout.origin[2] + r * layout.spacing[2],
       layout.origin[3] >>

\* line 93-94: the cell after (r, c) in the nested loops, and whether there is one
GridNextCol(layout, c) == IF c + 1 < layout.cols THEN c + 1 ELSE 0

\* an outer loop that moves on after every cell
GridNextRowEveryCell(layout, r, c) == r + 1

GridNextRow(layout, r, c) == IF c + 1 < layout.cols THEN r ELSE r + 1

\* line 93-109: one iteration of the inner loop
LayoutGridCell ==
    /\ pc = "grid"
    /\ LET layout == The(obj.layout)
           vary == layout.yaw_variation_deg > 0
           s == IF vary THEN RngStep(The(rng)) ELSE The(rng)
           yaw == IF vary
                  THEN Uniform(s, -layout.yaw_variation_deg, layout.yaw_variation_deg)
                  ELSE 0
       IN /\ row < layout.rows
          /\ col < layout.cols
          /\ rng' = Some(s)
          /\ instances' = Append(instances,
                 InstanceSpec(Pose(GridPosition(layout, row, col), yaw),
                              Some(GridSuffix(row, col))))
          /\ col' = GridNextCol(layout, col)
          /\ row' = GridNextRow(layout, row, col)
          /\ pc' = IF GridNextRow(layout, row, col) < layout.rows
                   THEN "grid" ELSE "layout_return"
    /\ UNCHANGED <<obj, i, attempt, x, y, placed_positions, accepted>>
    /\ UNCHANGED <<callVars, compileVars>>
    /\ UNCHANGED <<catalogVars, threadVars, extVars>>

\* line 111-117: the random branch is entered
LayoutRandomBegin ==
    /\ pc = "layout"
    /\ obj.instances = None
    /\ obj.layout # None
    /\ The(obj.layout).type = "random"
    /\ instances' = <<>>
    /\ rng' = NewRandom(seed)
    /\ placed_positions' = <<>>
    /\ i' = 0
    /\ attempt' = 0
    /\ pc' = "random_try"
    /\ UNCHANGED <<obj, row, col, x, y, accepted>>
    /\ UNCHANGED <<callVars, compileVars>>
    /\ UNCHANGED <<catalogVars, threadVars, extVars>>

\* line 122-125: the point a draw yields; s1 and s2 are the states the two
\* uniform calls leave
DrawX(layout, s1, s2) == layout.center[1] + SqrtTimes(s2, layout.radius) * Cos(Uniform(s1, 0, NumDirections))
DrawY(layout, s1, s2) == layout.center[2] + SqrtTimes(s2, layout.radius) * Sin(Uniform(s1, 0, NumDirections))

\* line 131-132: dist < min_separation, for min_separation > 0, on the squares
Closer(px, py, qx, qy, sep) ==
    (px - qx) * (px - qx) + (py - qy) * (py - qy) < sep * sep

\* line 128-134: too_close
TooClose(layout, px, py, placed) ==
    /\ layout.min_separation > 0
    /\ \E k \in 1..Len(placed) :
           Closer(px, py, placed[k][1], placed[k][2], layout.min_separation)

\* line 120-139: one draw that passes the separation check: placed, break
RandomAttemptAccept ==
    /\ pc = "random_try"
    /\ LET layout == The(obj.layout)
           s1 == RngStep(The(rng))
           s2 == RngStep(s1)
           px == DrawX(layout, s1, s2)
           py == DrawY(layout, s1, s2)
       IN /\ attempt < max_attempts
          /\ ~TooClose(layout, px, py, placed_positions)
          /\ rng' = Some(s2)
          /\ x' = px
          /\ y' = py
          /\ placed_positions' = Append(placed_positions, <<px, py>>)
          /\ accepted' = Append(accepted, TRUE)
          /\ attempt' = attempt + 1
          /\ pc' = "random_emit"
    /\ UNCHANGED <<obj, instances, row, col, i>>
    /\ UNCHANGED <<callVars, compileVars>>
    /\ UNCHANGED <<catalogVars, threadVars, extVars>>

\* line 120-136: one draw that fails the separation check: continue; after
\* the last of the max_attempts draws the loop ends with x, y as drawn
RandomAttemptReject ==
    /\ pc = "random_try"
    /\ LET layout == The(obj.layout)
           s1 == RngStep(The(rng))
           s2 == RngStep(s1)
           px == DrawX(layout, s1, s2)
           py == DrawY(layout, s1, s2)
       IN /\ attempt < max_attempts
          /\ TooClose(layout, px, py, placed_positions)
          /\ rng' = Some(s2)
          /\ x' = px
          /\ y' = py
          /\ attempt' = attempt + 1
          /\ accepted' = IF attempt + 1 < max_attempts THEN accepted
                         ELSE Append(accepted, FALSE)
          /\ pc' = IF attempt + 1 < max_attempts THEN "random_try" ELSE "random_emit"
    /\ UNCHANGED <<obj, instances, row, col, i, placed_positions>>
    /\ UNCHANGED <<callVars, compileVars>>
    /\ UNCHANGED <<catalogVars, threadVars, extVars>>

\* a layout engine that leaves out the points it could not separate
EmitInstanceIfPlaced(layout, yaw) ==
    IF accepted[Len(accepted)]
    THEN Append(instances,
             InstanceSpec(Pose(<<x, y, layout.center[3]>>, yaw), Some(ToString(i))))
    ELSE instances

\* line 144-149: instances.append(...), whichever way the inner loop ended
EmitInstance(layout, yaw) ==
    Append(instances,
        InstanceSpec(Pose(<<x, y, layout.center[3]>>, yaw), Some(ToString(i))))

\* line 141-149: the instance of point i is appended, and the outer loop goes on
RandomEmit ==
    /\ pc = "random_emit"
    /\ LET layout == The(obj.layout)
           s == IF layout.random_yaw THEN RngStep(The(rng)) ELSE The(rng)
           yaw == IF layout.random_yaw THEN Uniform(s, 0, 360) ELSE 0
       IN /\ rng' = Some(s)
          /\ instances' = EmitInstance(layout, yaw)
          /\ i' = i + 1
          /\ attempt' = 0
          /\ pc' = IF i + 1 < layout.count THEN "random_try" ELSE "layout_return"
    /\ UNCHANGED <<obj, row, col, x, y, placed_positions, accepted>>
    /\ UNCHANGED <<callVars, compileVars>>
    /\ UNCHANGED <<catalogVars, threadVars, extVars>>

LayoutStep ==
    \/ LayoutExplicit
    \/ LayoutDefault
    \/ LayoutGridBegin
    \/ LayoutGridCell
    \/ LayoutRandomBegin
    \/ RandomAttemptAccept
    \/ RandomAttemptReject
    \/ RandomEmit

(***************************************************************************)
(* A direct caller of _layout_instances (the tests call it so): the call,  *)
(* and the same call once more.                                            *)
(***************************************************************************)
EnvironmentSpec(asset_id) == [asset_id |-> asset_id]

CameraSpec(name, asset_id, pose, target) ==
    [name |-> name, asset_id |-> asset_id, pose |-> pose, target |-> target]

LightSpec(name, position) == [name |-> name, position |-> position]

SceneSpec(name, environment, objects, cameras, lights) ==
    [name |-> name, environment |-> environment, objects |-> objects,
     cameras |-> cameras, lights |-> lights]

NoScene == SceneSpec("none", EnvironmentSpec("ground"), <<>>, <<>>, <<>>)

NoDocument ==
    /\ asset = <<>> /\ worldbody = <<>> /\ all_sensors = <<>> /\ oi = 0
    /\ expanded = <<>> /\ loads = <<>> /\ result = None /\ error = None

\* no AssetCatalog is under construction or queried
NoCatalog ==
    /\ manifests = <<>> /\ scanned = 0 /\ by_id = <<>> /\ paths = <<>>
    /\ summaries = <<>> /\ by_category = <<>> /\ by_tag = <<>> /\ by_fallback = <<>>
    /\ cpc = "off" /\ request = None /\ answer = None

\* a single thread runs
NoThread == running = 1 /\ other = None /\ interleaved = FALSE

\* no SceneAgent generates a scene
NoAgent ==
    max_repair_attempts = 0 /\ repair_attempt = 0 /\ last_error = None /\ llm_calls = <<>>

\* no RowNavigator steps
NoNavigator ==
    /\ cfg = None /\ current_state = "OFF" /\ current_row = 0 /\ turn_direction = 1
    /\ state_timer = 0 /\ lane_stable_count = 0 /\ last_lateral_error = 0
    /\ going_forward = TRUE /\ command = None

\* no TaskRunner steps
NoRunner == active = None /\ ctrl = None /\ xpos = None /\ stepped = None

\* no session is open
NoSession == session = None /\ workers = <<>> /\ files = {} /\ viewers = <<>> /\ spc = None

NoExt == NoAgent /\ NoNavigator /\ NoRunner /\ NoSession

InitLayout ==
    /\ mode = "layout"
    /\ seed \in Seeds
    /\ scene = NoScene
    /\ obj \in LayoutObjects
    /\ call = 1
    /\ first = None
    /\ pc = "layout"
    /\ NoLocals
    /\ NoDocument
    /\ NoCatalog
    /\ NoThread
    /\ NoExt

LayoutCallAgain ==
    /\ mode = "layout"
    /\ pc = "layout_return"
    /\ call = 1
    /\ call' = 2
    /\ first' = Some(instances)
    /\ pc' = "layout"
    /\ NewLocals
    /\ UNCHANGED <<mode, seed, scene, obj, compileVars>>
    /\ UNCHANGED <<catalogVars, threadVars, extVars>>

(***************************************************************************)
(* The asset repository.  An element is its tag, its name attribute and    *)
(* its attributes that name another element; a fragment file is missing,   *)
(* empty (after its comments are removed), unparsable, or a parsed tree.   *)
(***************************************************************************)
Element(tag, name, refs) == [tag |-> tag, name |-> name, refs |-> refs]

\* a file whose root is <mujoco>, with its asset, worldbody and sensor sections
MujocoFile(assets, bodies, sensors) ==
    [state |-> "parsed", root |-> "mujoco", asset |-> assets, worldbody |-> bodies,
     sensor |-> sensors]

\* a file whose root is another element: the root and its descendants
RawFile(tree) ==
    [state |-> "parsed", root |-> tree[1].tag, asset |-> <<>>, worldbody |-> tree,
     sensor |-> <<>>]

OtherFile(state) ==
    [state |-> state, root |-> "", asset |-> <<>>, worldbody |-> <<>>, sensor |-> <<>>]

GroundFile ==
    MujocoFile(
        << Element("texture", Some("tex"), {}),
           Element("material", Some("mat"), {<<"texture", "tex">>}) >>,
        << Element("geom", Some("floor"), {<<"material", "mat">>}),
           Element("geom", None, {<<"material", "grid_mat">>}) >>,
        <<>>)

CrateFile ==
    MujocoFile(
        << Element("mesh", Some("box"), {}) >>,
        << Element("body", Some("lid"), {}),
           Element("joint", Some("hinge"), {}),
           Element("geom", Some("shell"), {<<"mesh", "box">>, <<"material", "grid_mat">>}),
           Element("site", Some("imu"), {}) >>,
        << Element("accelerometer", Some("acc"), {<<"site", "imu">>}),
           Element("jointpos", Some("angle"), {<<"joint", "hinge">>}) >>)

TreeFile ==
    RawFile(<< Element("body", Some("trunk"), {}),
               Element("geom", Some("bark"), {<<"material", "grid_mat">>}) >>)

\* asset_id -> the file its manifest's mjcf_include names; "ghost" has no manifest
Files ==
    [id \in {"ground", "crate", "tree", "broken", "blank", "lost"} |->
        CASE id = "ground" -> GroundFile
          [] id = "crate" -> CrateFile
          [] id = "tree" -> TreeFile
          [] id = "broken" -> OtherFile("unparsable")
          [] id = "blank" -> OtherFile("empty")
          [] id = "lost" -> OtherFile("missing")]

\* AssetCatalog._by_id: the ids the catalog holds
CatalogIds == DOMAIN Files

\* AssetCatalog.get: whether it raises AssetNotFoundError(asset_id)
GetRaises(asset_id) == asset_id \notin CatalogIds

AssetNotFoundError(asset_id) == [type |-> "AssetNotFoundError", asset_id |-> asset_id]

FileNotFoundError(asset_id) == [type |-> "FileNotFoundError", asset_id |-> asset_id]

(***************************************************************************)
(* _load_asset_content(mjcf_path, prefix)                                  *)
(***************************************************************************)
RECURSIVE Concat(_)
Concat(ss) == IF ss = <<>> THEN <<>> ELSE Head(ss) \o Concat(Tail(ss))

\* line 213: f"{prefix}_{elem.get('name')}"
Prefixed(prefix, name) == prefix \o "_" \o name

\* line 210-215 and 236-238: name_map, over the elements of the collected sections
collect_names(elems, prefix) ==
    [n \in {The(elems[k].name) : k \in {j \in 1..Len(elems) : elems[j].name # None}}
        |-> Prefixed(prefix, n)]

\* line 224: the attributes rename_recursive treats as references
ref_attrs == {"site", "material", "mesh", "texture", "class", "childclass"}

\* line 217-231: one element renamed (its children are the next elements)
rename_recursive(elem, name_map) ==
    [elem EXCEPT
        !.name = IF elem.name # None /\ The(elem.name) \in DOMAIN name_map
                 THEN Some(name_map[The(elem.name)]) ELSE elem.name,
        !.refs = {<<r[1], IF r[1] \in ref_attrs /\ r[2] \in DOMAIN name_map
                         THEN name_map[r[2]] ELSE r[2]>> : r \in elem.refs}]

RenameAll(elems, name_map) ==
    [k \in 1..Len(elems) |-> rename_recursive(elems[k], name_map)]

EmptyContent == [worldbody |-> <<>>, sensors |-> <<>>, assets |-> <<>>]

\* a loader that takes a file that is not there for an empty one
ReadNeverRaises(file) == FALSE

\* line 191: mjcf_path.read_text() raises for a file that is not there
ReadRaises(file) == file.state = "missing"

\* line 193-267, for a file that was read
load_asset_content(file, prefix) ==
    IF file.state = "empty" THEN EmptyContent                \* line 199-200
    ELSE IF file.state = "unparsable" THEN EmptyContent      \* line 202-205
    ELSE LET name_map == collect_names(file.asset \o file.worldbody \o file.sensor, prefix)
         IN [worldbody |-> RenameAll(file.worldbody, name_map),
             sensors |-> RenameAll(file.sensor, name_map),
             assets |-> RenameAll(file.asset, name_map)]

(***************************************************************************)
(* scene_to_mjcf(scene, catalog, seed)                                     *)
(***************************************************************************)
\* line 45-55, for integers of fewer than five digits, which "g" prints as they are
format_vec(values) ==
    IF Len(values) = 2
    THEN ToString(values[1]) \o " " \o ToString(values[2])
    ELSE ToString(values[1]) \o " " \o ToString(values[2]) \o " " \o ToString(values[3])

\* line 31-42
to_euler_deg(pose) == <<pose.roll_deg, pose.pitch_deg, pose.yaw_deg>>

\* math.atan2(b, a) * 180 / math.pi, on the eight compass directions
Atan2Deg(b, a) ==
    CASE a = 0 /\ b = 0 -> 0
      [] b = 0 /\ a > 0 -> 0
      [] b = 0 /\ a < 0 -> 180
      [] a = 0 /\ b > 0 -> 90
      [] a = 0 /\ b < 0 -> -90
      [] a = b /\ a > 0 -> 45
      [] a = b /\ a < 0 -> -135
      [] a = -b /\ a > 0 -> -45
      [] a = -b /\ a < 0 -> 135

\* line 154-178, for a target straight above, below or level with the camera
compute_look_at_euler(position, target) ==
    LET dx == target[1] - position[1]
        dy == target[2] - position[2]
        dz == target[3] - position[3]
        Abs(v) == IF v < 0 THEN -v ELSE v
        horizontal_dist == CASE dy = 0 -> Abs(dx) [] dx = 0 -> Abs(dy)
    IN <<0, -Atan2Deg(dz, horizontal_dist), Atan2Deg(dy, dx)>>

\* a child of <worldbody>: a light, a body with the elements inlined into it, a camera
Child(tag, name, pos, euler, children) ==
    [tag |-> tag, name |-> name, pos |-> pos, euler |-> euler, children |-> children]

\* line 397-398 and 421-422: euler is set only when an angle is not zero
EulerAttr(e) == IF e[1] # 0 \/ e[2] # 0 \/ e[3] # 0 THEN Some(format_vec(e)) ELSE None

\* line 310-328: the default texture and material
DefaultAssets ==
    << Element("texture", Some("grid"), {}),
       Element("material", Some("grid_mat"), {<<"texture", "grid">>}) >>

\* an exporter that adds the default light to every scene
LightsAfterDefault(sc) ==
    << Child("light", "default_light", "0 0 10", None, <<>>) >> \o
    [k \in 1..Len(sc.lights) |->
        Child("light", sc.lights[k].name, format_vec(sc.lights[k].position), None, <<>>)]

\* line 334-351: the lights
Lights(sc) ==
    IF sc.lights = <<>>
    THEN << Child("light", "default_light", "0 0 10", None, <<>>) >>
    ELSE [k \in 1..Len(sc.lights) |->
             Child("light", sc.lights[k].name, format_vec(sc.lights[k].position), None, <<>>)]

\* line 362 and 366: f"env_{scene.environment.asset_id}"
EnvName(sc) == "env_" \o sc.environment.asset_id

\* line 380: obj.name or obj.asset_id
obj_name_base(o) == IF o.name # None /\ o.name # Some("") THEN The(o.name) ELSE o.asset_id

\* line 386-389: body_name, for the instance at index idx (from 0)
body_name(o, idx, inst) ==
    IF inst.name_suffix # None /\ inst.name_suffix # Some("")
    THEN obj_name_base(o) \o "_" \o The(inst.name_suffix)
    ELSE obj_name_base(o) \o "_" \o ToString(idx)

\* line 409-422: the cameras
Cameras(sc) ==
    [k \in 1..Len(sc.cameras) |->
        LET cam == sc.cameras[k]
        IN Child("camera", cam.name, format_vec(cam.pose.position),
                 IF cam.target # None
                 THEN Some(format_vec(compute_look_at_euler(cam.pose.position, The(cam.target))))
                 ELSE EulerAttr(to_euler_deg(cam.pose)),
                 <<>>)]

\* the exception leaves scene_to_mjcf: nothing is returned
Raise(e) ==
    /\ pc' = "raised"
    /\ error' = Some(e)
    /\ result' = None

\* line 285-351: the document is started and the lights are added
AddLights ==
    /\ mode = "compile"
    /\ pc = "start"
    /\ asset' = DefaultAssets
    /\ worldbody' = Lights(scene)
    /\ all_sensors' = <<>>
    /\ pc' = "environment"
    /\ UNCHANGED <<oi, expanded, loads, result, error>>
    /\ UNCHANGED <<callVars, layoutVars>>
    /\ UNCHANGED <<catalogVars, threadVars, extVars>>

\* line 356-371: the environment body
AddEnvironment ==
    /\ pc = "environment"
    /\ LET id == scene.environment.asset_id
       IN IF GetRaises(id)
          THEN /\ Raise(AssetNotFoundError(id))
               /\ UNCHANGED <<asset, worldbody, all_sensors, loads>>
          ELSE IF ReadRaises(Files[id])
          THEN /\ Raise(FileNotFoundError(id))
               /\ worldbody' = Append(worldbody, Child("body", EnvName(scene), "0 0 0", None, <<>>))
               /\ UNCHANGED <<asset, all_sensors, loads>>
          ELSE LET env_content == load_asset_content(Files[id], EnvName(scene))
               IN /\ worldbody' = Append(worldbody,
                        Child("body", EnvName(scene), "0 0 0", None, env_content.worldbody))
                  /\ asset' = asset \o env_content.assets
                  /\ all_sensors' = all_sensors \o env_content.sensors
                  /\ loads' = Append(loads, [prefix |-> EnvName(scene), asset_id |-> id])
                  /\ pc' = "objects"
                  /\ UNCHANGED <<result, error>>
    /\ UNCHANGED <<oi, expanded>>
    /\ UNCHANGED <<callVars, layoutVars>>
    /\ UNCHANGED <<catalogVars, threadVars, extVars>>

\* line 374-379: the next object is resolved and _layout_instances is called
ResolveObject ==
    /\ pc = "objects"
    /\ oi < Len(scene.objects)
    /\ LET o == scene.objects[oi + 1]
       IN IF GetRaises(o.asset_id)
          THEN /\ Raise(AssetNotFoundError(o.asset_id))
               /\ UNCHANGED layoutVars
          ELSE /\ obj' = o
               /\ NewLocals
               /\ pc' = "layout"
               /\ UNCHANGED <<result, error>>
    /\ UNCHANGED <<asset, worldbody, all_sensors, oi, expanded, loads>>
    /\ UNCHANGED callVars
    /\ UNCHANGED <<catalogVars, threadVars, extVars>>

\* line 383-398: the body of the instance at index idx, around its content
InstanceBody(o, idx, inst, content) ==
    Child("body", body_name(o, idx, inst), format_vec(inst.pose.position),
          EulerAttr(to_euler_deg(inst.pose)), content.worldbody)

\* line 380-406: one body per instance, each with the asset's content loaded anew
AddInstances ==
    /\ mode = "compile"
    /\ pc = "layout_return"
    /\ LET file == Files[obj.asset_id]
           n == Len(instances)
           content == [k \in 1..n |->
               load_asset_content(file, body_name(obj, k - 1, instances[k]))]
       IN IF n > 0 /\ ReadRaises(file)
          THEN /\ Raise(FileNotFoundError(obj.asset_id))
               /\ worldbody' = Append(worldbody,
                      Child("body", body_name(obj, 0, instances[1]),
                            format_vec(instances[1].pose.position),
                            EulerAttr(to_euler_deg(instances[1].pose)), <<>>))
               /\ UNCHANGED <<asset, all_sensors, oi, expanded, loads>>
          ELSE /\ worldbody' = worldbody \o
                      [k \in 1..n |-> InstanceBody(obj, k - 1, instances[k], content[k])]
               /\ asset' = asset \o Concat([k \in 1..n |-> content[k].assets])
               /\ all_sensors' = all_sensors \o Concat([k \in 1..n |-> content[k].sensors])
               /\ loads' = loads \o
                      [k \in 1..n |-> [prefix |-> body_name(obj, k - 1, instances[k]),
                                       asset_id |-> obj.asset_id]]
               /\ expanded' = Append(expanded, instances)
               /\ oi' = oi + 1
               /\ pc' = "objects"
               /\ UNCHANGED <<result, error>>
    /\ UNCHANGED <<callVars, layoutVars>>
    /\ UNCHANGED <<catalogVars, threadVars, extVars>>

\* line 408-442: the cameras, the sensor section, and the document is returned
Finish ==
    /\ pc = "objects"
    /\ oi = Len(scene.objects)
    /\ worldbody' = worldbody \o Cameras(scene)
    /\ result' = Some([model |-> scene.name, asset |-> asset,
                       worldbody |-> worldbody \o Cameras(scene), sensor |-> all_sensors])
    /\ pc' = "done"
    /\ UNCHANGED <<asset, all_sensors, oi, expanded, loads, error>>
    /\ UNCHANGED <<callVars, layoutVars>>
    /\ UNCHANGED <<catalogVars, threadVars, extVars>>

(***************************************************************************)
(* The scenes compiled: every list of up to MaxObjects objects in a bare   *)
(* scene, and every environment, camera list and light list around two     *)
(* objects.                                                                *)
(***************************************************************************)
MaxObjects == 2

CompileGrids ==
    {g \in GridLayouts : g.origin = <<1, -1, 2>> /\ g.spacing = <<2, 3>> /\ g.cols = MaxCols}

CompileObjects ==
    { ObjectSpec("crate", None, None, None),
      ObjectSpec("tree", Some("oak"), None,
          Some(<<InstanceSpec(Pose(<<1, 2, 3>>, 45), Some("a")),
                 InstanceSpec(Pose(<<4, 5, 6>>, 0), None),
                 InstanceSpec(Pose(<<7, 8, 9>>, 0), Some("a"))>>)),
      ObjectSpec("tree", Some("pine"),
          Some([type |-> "random", center |-> <<5, 5, 1>>, radius |-> 3, count |-> 2,
                min_separation |-> 0, random_yaw |-> TRUE]), None),
      ObjectSpec("ghost", None, None, None),
      ObjectSpec("broken", None, None, None),
      ObjectSpec("lost", None, None, None) }
    \cup {ObjectSpec("crate", Some("box"), Some(g), None) : g \in CompileGrids}

ObjectLists == UNION {[1..n -> CompileObjects] : n \in 0..MaxObjects}

CameraLists ==
    { <<>>,
      <<CameraSpec("overview", Some("ghost"), Pose(<<0, 0, 5>>, 0), Some(<<0, 0, 0>>))>>,
      <<CameraSpec("overview", Some("ghost"), Pose(<<0, 0, 5>>, 0), Some(<<0, 0, 0>>)),
        CameraSpec("side", None, Pose(<<4, 0, 4>>, 90), None)>> }

LightLists ==
    { <<>>,
      <<LightSpec("sun", <<0, 0, 20>>)>>,
      <<LightSpec("sun", <<0, 0, 20>>), LightSpec("lamp", <<1, 1, 3>>)>> }

EnvironmentIds == {"ground", "tree", "ghost", "broken", "blank", "lost"}

Scenes ==
    {SceneSpec("bare", EnvironmentSpec("ground"), l, <<>>, <<>>) : l \in ObjectLists}
    \cup {SceneSpec("full", EnvironmentSpec(e),
                    <<ObjectSpec("crate", None, None, None),
                      ObjectSpec("crate", Some("box"), None,
                          Some(<<InstanceSpec(Pose(<<1, 2, 3>>, 0), Some("a")),
                                 InstanceSpec(Pose(<<4, 5, 6>>, 0), None)>>))>>,
                    c, l) :
             e \in EnvironmentIds, c \in CameraLists, l \in LightLists}

NoObject == ObjectSpec("", None, None, None)

InitCompile ==
    /\ mode = "compile"
    /\ seed \in Seeds
    /\ scene \in Scenes
    /\ obj = NoObject
    /\ call = 1
    /\ first = None
    /\ pc = "start"
    /\ NoLocals
    /\ NoDocument
    /\ NoCatalog
    /\ NoThread
    /\ NoExt

\* the caller calls scene_to_mjcf once more, with the same arguments
CompileCallAgain ==
    /\ mode = "compile"
    /\ pc \in {"done", "raised"}
    /\ call = 1
    /\ call' = 2
    /\ first' = Some([result |-> result, error |-> error, expanded |-> expanded])
    /\ pc' = "start"
    /\ obj' = NoObject
    /\ NewLocals
    /\ asset' = <<>> /\ worldbody' = <<>> /\ all_sensors' = <<>> /\ oi' = 0
    /\ expanded' = <<>> /\ loads' = <<>> /\ result' = None /\ error' = None
    /\ UNCHANGED <<mode, seed, scene>>
    /\ UNCHANGED <<catalogVars, threadVars, extVars>>

Init == InitLayout \/ InitCompile

\* neither function touches the catalog's indices, nor another thread's frame
Next ==
    \/ LayoutStep
    \/ LayoutCallAgain
    \/ AddLights
    \/ AddEnvironment
    \/ ResolveObject
    \/ AddInstances
    \/ Finish
    \/ CompileCallAgain

Spec == Init /\ [][Next]_vars

(***************************************************************************)
(* The claims.                                                             *)
(***************************************************************************)
IsGrid(o) == o.instances = None /\ o.layout # None /\ The(o.layout).type = "grid"
IsRandom(o) == o.instances = None /\ o.layout # None /\ The(o.layout).type = "random"

RECURSIVE Sum(_)
Sum(ns) == IF ns = <<>> THEN 0 ELSE Head(ns) + Sum(Tail(ns))

\* the indices in <worldbody> of the bodies of the k-th object: they follow the
\* lights, the environment body and the bodies of the objects before it
FirstBodyOf(k) ==
    Len(Lights(scene)) + 1 + Sum([j \in 1..(k - 1) |-> Len(expanded[j])])

BodiesOf(k) == (FirstBodyOf(k) + 1)..(FirstBodyOf(k) + Len(expanded[k]))

\* the document's elements below the top level: the resources, the elements
\* inlined into the bodies, the sensors
DocElements(doc) ==
    doc.asset \o Concat([k \in 1..Len(doc.worldbody) |-> doc.worldbody[k].children])
        \o doc.sensor

\* every name attribute of the document, in document order
DocNames(doc) ==
    LET elems == DocElements(doc)
        Named(es) == SelectSeq(es, LAMBDA e : e.name # None)
    IN [k \in 1..Len(doc.worldbody) |-> doc.worldbody[k].name]
       \o [k \in 1..Len(Named(elems)) |-> The(Named(elems)[k].name)]

\* the asset ids the scene refers to
CameraAssetIds(sc) == UNION {sc.cameras[k].asset_id : k \in 1..Len(sc.cameras)}
ObjectAssetIds(sc) == {sc.objects[k].asset_id : k \in 1..Len(sc.objects)}
ReferencedIds(sc) == {sc.environment.asset_id} \cup ObjectAssetIds(sc) \cup CameraAssetIds(sc)

\* <worldbody>'s children as (tag, name), and the groups they come in
WorldEntries == [k \in 1..Len(worldbody) |-> <<worldbody[k].tag, worldbody[k].name>>]

LightEntries ==
    IF scene.lights = <<>>
    THEN << <<"light", "default_light">> >>
    ELSE [k \in 1..Len(scene.lights) |-> <<"light", scene.lights[k].name>>]

EnvironmentEntry == << <<"body", "env_" \o scene.environment.asset_id>> >>

InstanceEntries ==
    Concat([k \in 1..Len(scene.objects) |->
        [j \in 1..Len(expanded[k]) |->
            <<"body", body_name(scene.objects[k], j - 1, expanded[k][j])>>]])

CameraEntries == [k \in 1..Len(scene.cameras) |-> <<"camera", scene.cameras[k].name>>]

\* C1: every element name in the compiled document is unique, also when two
\* ObjectSpecs share a name or asset_id, or two explicit instances a name_suffix.
C1_UniqueNames ==
    (mode = "compile" /\ pc = "done") =>
        LET names == DocNames(The(result))
        IN \A a, b \in DOMAIN names : a # b => names[a] # names[b]

\* C2: every attribute of the compiled document that refers to a named
\* symbol has the name of an element of the same document as its value.
C2_NoDanglingReference ==
    (mode = "compile" /\ pc = "done") =>
        LET doc == The(result)
            elems == DocElements(doc)
            names == {DocNames(doc)[k] : k \in DOMAIN DocNames(doc)}
        IN \A k \in DOMAIN elems : \A r \in elems[k].refs : r[2] \in names

\* C3 as stated: the world's children are the environment body, then the
\* instance bodies in object and instance order, then the cameras, then the
\* lights (one default light if and only if scene.lights is empty).
C3_EnvironmentFirstLightsLast ==
    (mode = "compile" /\ pc = "done") =>
        WorldEntries = EnvironmentEntry \o InstanceEntries \o CameraEntries \o LightEntries

\* C3 as amended: the world's children are the lights in list order (one
\* default light if and only if scene.lights is empty), then the environment
\* body, then one body per instance in the order of scene.objects and, within
\* an object, of its instance list, then one camera per CameraSpec in list order.
C3_LightsFirst ==
    (mode = "compile" /\ pc = "done") =>
        WorldEntries = LightEntries \o EnvironmentEntry \o InstanceEntries \o CameraEntries

C3_Witness ==
    /\ mode = "compile" /\ pc = "done"
    /\ Len(scene.lights) = 2
    /\ Len(scene.cameras) = 2
    /\ Len(scene.objects) = 2
    /\ Len(expanded[2]) = 2
    /\ Len(worldbody) = 8

\* C4: when an asset id the scene refers to (the environment's, an object's,
\* a camera's sensor asset) is not in the catalog, scene_to_mjcf raises an
\* error that names such an id and returns no document.
C4_UnknownAssetRaises ==
    (mode = "compile" /\ ReferencedIds(scene) \ CatalogIds # {}) =>
        /\ pc # "done"
        /\ result = None
        /\ pc = "raised" =>
               /\ error # None
               /\ The(error).type = "AssetNotFoundError" =>
                      The(error).asset_id \in ReferencedIds(scene) \ CatalogIds

\* the resolved assets whose fragment file is in the given state
UsedIdsInState(sc, states) ==
    {id \in ({sc.environment.asset_id} \cup ObjectAssetIds(sc)) \cap CatalogIds :
        Files[id].state \in states}

C6_Deterministic ==
    /\ (mode = "layout" /\ call = 2 /\ pc = "layout_return")
           => instances = The(first)
    /\ (mode = "compile" /\ call = 2 /\ pc \in {"done", "raised"})
           => /\ result = The(first).result
              /\ error = The(first).error
              /\ expanded = The(first).expanded

C6_Witness ==
    /\ mode = "compile" /\ call = 2 /\ pc = "done"
    /\ \E k \in 1..Len(scene.objects) : IsRandom(scene.objects[k])
    /\ \E k \in 1..Len(scene.objects) :
           IsGrid(scene.objects[k]) /\ The(scene.objects[k].layout).yaw_variation_deg > 0

\* C7: a grid layout of rows x cols expands to exactly rows * cols instances,
\* with or without yaw variation, and the compiled document holds exactly
\* rows * cols top-level bodies for that object.
C7_GridCount ==
    /\ (pc = "layout_return" /\ IsGrid(obj))
           => Len(instances) = The(obj.layout).rows * The(obj.layout).cols
    /\ (mode = "compile" /\ pc = "done")
           => /\ Cardinality({j \in DOMAIN worldbody : worldbody[j].tag = "body"})
                     = 1 + Sum([k \in 1..Len(scene.objects) |-> Len(expanded[k])])
              /\ \A k \in 1..Len(scene.objects) :
                     IsGrid(scene.objects[k]) =>
                         /\ Cardinality(BodiesOf(k))
                                = The(scene.objects[k].layout).rows
                                      * The(scene.objects[k].layout).cols
                         /\ \A j \in BodiesOf(k) : worldbody[j].tag = "body"

C7_Witness ==
    /\ mode = "compile" /\ pc = "done"
    /\ \E k \in 1..Len(scene.objects) :
           /\ IsGrid(scene.objects[k])
           /\ The(scene.objects[k].layout).rows = 2
           /\ The(scene.objects[k].layout).cols = 2
           /\ The(scene.objects[k].layout).yaw_variation_deg > 0
           /\ Len(expanded[k]) = 4

\* C8: grid expansion is row-major: the instance at list index row * cols + col
\* sits at (origin.x + col * spacing[0], origin.y + row * spacing[1], origin.z)
\* and has the name suffix r{row}_c{col}.
C8_GridRowMajor ==
    (pc = "layout_return" /\ IsGrid(obj)) =>
        LET g == The(obj.layout)
        IN \A r \in 0..(g.rows - 1), c \in 0..(g.cols - 1) :
               /\ r * g.cols + c + 1 \in DOMAIN instances
               /\ instances[r * g.cols + c + 1].pose.position
                      = << g.origin[1] + c * g.spacing[1],
                           g.origin[2] + r * g.spacing[2],
                           g.origin[3] >>
               /\ instances[r * g.cols + c + 1].name_suffix
                      = Some("r" \o ToString(r) \o "_c" \o ToString(c))

C8_Witness ==
    /\ pc = "layout_return" /\ IsGrid(obj)
    /\ The(obj.layout).rows = 2 /\ The(obj.layout).cols = 2
    /\ The(obj.layout).spacing = <<2, 3>>
    /\ instances[3].pose.position = <<1, 2, 2>>
    /\ instances[3].name_suffix = Some("r1_c0")

C10_AcceptedKeepDistance ==
    (IsRandom(obj) /\ pc \in {"random_try", "random_emit", "layout_return"}
        /\ The(obj.layout).min_separation > 0) =>
        \A k \in 1..Len(instances) : \A j \in 1..(k - 1) :
            accepted[k] =>
                ~Closer(instances[k].pose.position[1], instances[k].pose.position[2],
                        instances[j].pose.position[1], instances[j].pose.position[2],
                        The(obj.layout).min_separation)

(***************************************************************************)
(* The asset catalog, src/neoscene/core/asset_catalog.py.                  *)
(*                                                                         *)
(* A text the catalog compares (an id, a name, a tag, a concept, a query)  *)
(* is the sequence of its characters, so that lower(), "in", startswith()  *)
(* and the slice [:3] are computed as Python computes them.  A dict is the *)
(* sequence of its items in insertion order, the order Python iterates it  *)
(* in.                                                                     *)
(***************************************************************************)
lowercase(c) ==
    CASE c = "A" -> "a" [] c = "C" -> "c" [] c = "O" -> "o" [] c = "T" -> "t"
      [] OTHER -> c

\* str.lower()
lower(s) == [k \in 1..Len(s) |-> lowercase(s[k])]

\* Python's "sub in s" on two strings
contains(sub, s) ==
    \E k \in 0..(Len(s) - Len(sub)) : SubSeq(s, k + 1, k + Len(sub)) = sub

\* s.startswith(p)
startswith(s, p) == Len(p) <= Len(s) /\ SubSeq(s, 1, Len(p)) = p

\* the slice seq[:n]
Slice(seq, n) ==
    IF n >= 0
    THEN SubSeq(seq, 1, IF n < Len(seq) THEN n ELSE Len(seq))
    ELSE SubSeq(seq, 1, IF Len(seq) + n > 0 THEN Len(seq) + n ELSE 0)

DictHas(d, k) == \E j \in 1..Len(d) : d[j].key = k

DictGet(d, k) == d[CHOOSE j \in 1..Len(d) : d[j].key = k].value

\* d[k] = v: a key that is present keeps its place
DictSet(d, k, v) ==
    IF DictHas(d, k)
    THEN [j \in 1..Len(d) |-> IF d[j].key = k THEN [key |-> k, value |-> v] ELSE d[j]]
    ELSE Append(d, [key |-> k, value |-> v])

\* if k not in d: d[k] = []; d[k].append(v)
DictAppend(d, k, v) ==
    IF DictHas(d, k) THEN DictSet(d, k, Append(DictGet(d, k), v)) ELSE DictSet(d, k, <<v>>)

DictKeys(d) == [j \in 1..Len(d) |-> d[j].key]

\* for k in ks: d[k.lower()].append(v)
RECURSIVE DictAppendAll(_, _, _)
DictAppendAll(d, ks, v) ==
    IF ks = <<>> THEN d ELSE DictAppendAll(DictAppend(d, lower(Head(ks)), v), Tail(ks), v)

(***************************************************************************)
(* Manifests, src/neoscene/core/asset_manifest.py.  A manifest.json file   *)
(* is its folder, whether its text is JSON, and the data the JSON holds.   *)
(***************************************************************************)
AssetCategory ==
    {"environment", "vehicle", "nature", "urban", "sensor", "person", "animal", "prop",
     "robot"}

SensorType == {"camera", "imu", "lidar", "gps", "rangefinder", "depth", "other"}

Availability == {"local", "remote"}

Semantics(human_names, usage) == [human_names |-> human_names, usage |-> usage]

AssetManifest(asset_id, name, category, tags, fallback_for, availability, semantics) ==
    [asset_id |-> asset_id, name |-> name, category |-> category, tags |-> tags,
     fallback_for |-> fallback_for, sensor_type |-> None, availability |-> availability,
     mjcf_include |-> Some("model.xml"), semantics |-> semantics]

ManifestFile(folder, json, data) == [folder |-> folder, json |-> json, data |-> data]

\* AssetManifest.model_validate(data) raises ValidationError
ValidationRaises(data) ==
    \/ data.category \notin AssetCategory
    \/ data.availability \notin Availability
    \/ data.sensor_type # None /\ The(data.sensor_type) \notin SensorType
    \/ data.mjcf_include = None

\* load_manifest(path) raises: json.loads does, or the validation does
LoadRaises(file) == ~file.json \/ ValidationRaises(file.data)

load_manifest(file) == file.data

AssetSummary(manifest, folder) ==
    [asset_id |-> manifest.asset_id, name |-> manifest.name,
     category |-> manifest.category, tags |-> manifest.tags,
     fallback_for |-> manifest.fallback_for, sensor_type |-> manifest.sensor_type,
     availability |-> manifest.availability, path |-> folder]

(***************************************************************************)
(* AssetCatalog.__init__ and _scan: one action per manifest.json found.    *)
(***************************************************************************)
\* mutant: a manifest that fails to load is indexed all the same
IndexedAnyway(file) == FALSE

\* line 106-149: the except clause is taken, and the file leaves no trace
Skipped(file) == LoadRaises(file)

ScanManifest ==
    /\ cpc = "scan"
    /\ scanned < Len(manifests)
    /\ LET file == manifests[scanned + 1]
           manifest == load_manifest(file)
           aid == manifest.asset_id
       IN IF Skipped(file)
          THEN UNCHANGED indexVars
          ELSE /\ by_id' = DictSet(by_id, aid, manifest)
               /\ paths' = DictSet(paths, aid, file.folder)
               /\ summaries' = Append(summaries, AssetSummary(manifest, file.folder))
               /\ by_category' = DictAppend(by_category, manifest.category, aid)
               /\ by_tag' = DictAppendAll(by_tag, manifest.tags, aid)
               /\ by_fallback' = DictAppendAll(by_fallback, manifest.fallback_for, aid)
    /\ scanned' = scanned + 1
    /\ UNCHANGED <<manifests, cpc, request, answer>>
    /\ UNCHANGED <<callVars, pc, layoutVars, compileVars, threadVars, extVars>>

\* line 151: the constructor returns
ScanDone ==
    /\ cpc = "scan"
    /\ scanned = Len(manifests)
    /\ cpc' = "ready"
    /\ UNCHANGED <<manifests, scanned, indexVars, request, answer>>
    /\ UNCHANGED <<callVars, pc, layoutVars, compileVars, threadVars, extVars>>

(***************************************************************************)
(* The queries of the catalog.                                             *)
(***************************************************************************)
find_similar_limit == 3

\* line 168: the id contains the query or the query contains the id
PartialMatch(query_lower, existing_id) ==
    \/ contains(query_lower, lower(existing_id))
    \/ contains(lower(existing_id), query_lower)

\* line 171: the id starts with the first three characters of a longer query
CommonPrefix(query_lower, existing_id) ==
    Len(query_lower) > 3 /\ startswith(lower(existing_id), Slice(query_lower, 3))

\* _find_similar(asset_id, limit=3)
find_similar(asset_id) ==
    LET query_lower == lower(asset_id)
        Similar(existing_id) ==
            PartialMatch(query_lower, existing_id) \/ CommonPrefix(query_lower, existing_id)
    IN Slice(SelectSeq(DictKeys(by_id), Similar), find_similar_limit)

AssetNotFoundErrorWith(asset_id, suggestions) ==
    [type |-> "AssetNotFoundError", asset_id |-> asset_id, suggestions |-> suggestions]

Returned(value) == [kind |-> "returned", value |-> value]

Raised(exception) == [kind |-> "raised", value |-> exception]

\* mutant: get answers an id it does not hold with a manifest it holds
GetNearest(asset_id) ==
    IF by_id = <<>>
    THEN Raised(AssetNotFoundErrorWith(asset_id, <<>>))
    ELSE Returned(by_id[1].value)

\* get(asset_id)
get(asset_id) ==
    IF ~DictHas(by_id, asset_id)
    THEN Raised(AssetNotFoundErrorWith(asset_id, find_similar(asset_id)))
    ELSE Returned(DictGet(by_id, asset_id))

RECURSIVE Total(_)
Total(ns) == IF ns = <<>> THEN 0 ELSE Head(ns) + Total(Tail(ns))

\* line 192-227: the points one text earns, for an exact and for a partial match
Points(query_lower, text, exact, partial) ==
    IF query_lower = lower(text) THEN exact
    ELSE IF contains(query_lower, lower(text)) THEN partial
    ELSE 0

PointsOfAll(query_lower, texts, exact, partial) ==
    Total([k \in 1..Len(texts) |-> Points(query_lower, texts[k], exact, partial)])

\* _score(summary, query)
score(summary, query) ==
    LET query_lower == lower(query)
    IN Points(query_lower, summary.asset_id, 100, 50)
       + Points(query_lower, summary.name, 80, 40)
       + PointsOfAll(query_lower, summary.tags, 30, 15)
       + (IF DictHas(by_id, summary.asset_id)
          THEN LET manifest == DictGet(by_id, summary.asset_id)
               IN PointsOfAll(query_lower, manifest.semantics.human_names, 25, 12)
                  + PointsOfAll(query_lower, manifest.semantics.usage, 20, 10)
          ELSE 0)

\* mutant: an entry goes before the entries of its score
InsertBeforeTies(sorted, e) ==
    LET k == Cardinality({j \in 1..Len(sorted) : sorted[j].score > e.score})
    IN SubSeq(sorted, 1, k) \o <<e>> \o SubSeq(sorted, k + 1, Len(sorted))

\* one step of results.sort(key=score, reverse=True): the sort is stable, the entry
\* goes behind every entry whose score is not smaller
InsertByScore(sorted, e) ==
    LET k == Cardinality({j \in 1..Len(sorted) : sorted[j].score >= e.score})
    IN SubSeq(sorted, 1, k) \o <<e>> \o SubSeq(sorted, k + 1, Len(sorted))

RECURSIVE SortByScore(_)
SortByScore(results) ==
    IF results = <<>> THEN <<>>
    ELSE InsertByScore(SortByScore(SubSeq(results, 1, Len(results) - 1)),
                       results[Len(results)])

\* line 250-257: the summaries of the category that score above 0, with their scores
Scored(query, category) ==
    LET Kept(summary) ==
            /\ category = None \/ summary.category = The(category)
            /\ score(summary, query) > 0
        kept == SelectSeq(summaries, Kept)
    IN [k \in 1..Len(kept) |-> [score |-> score(kept[k], query), summary |-> kept[k]]]

\* search(query, category, limit)
search(query, category, limit) ==
    LET results == Slice(SortByScore(Scored(query, category)), limit)
    IN [k \in 1..Len(results) |-> results[k].summary]

search_limit == 10

best_match_limit == 10

\* best_match(text, category, prefer_local)
best_match(text, category, prefer_local) ==
    LET results == search(text, category, best_match_limit)
        IsLocal(r) == r.availability = "local"
        local_results == SelectSeq(results, IsLocal)
    IN IF results = <<>> THEN None
       ELSE IF prefer_local /\ local_results # <<>>
       THEN Some(DictGet(by_id, local_results[1].asset_id))
       ELSE Some(DictGet(by_id, results[1].asset_id))

\* find_fallback(concept, category)
find_fallback(concept, category) ==
    LET concept_lower == lower(concept)
    IN IF DictHas(by_fallback, concept_lower)
       THEN LET candidates == DictGet(by_fallback, concept_lower)
                Preferred(aid) ==
                    /\ category = None \/ DictGet(by_id, aid).category = The(category)
                    /\ DictGet(by_id, aid).availability = "local"
                preferred == SelectSeq(candidates, Preferred)
            IN IF preferred # <<>> THEN Some(DictGet(by_id, preferred[1]))
               ELSE IF candidates # <<>> THEN Some(DictGet(by_id, candidates[1]))
               ELSE None
       ELSE None

\* list_all(category), as list_assets_by_category reads it: the ids
list_all(category) ==
    LET OfCategory(s) == category = None \/ s.category = The(category)
        listed == SelectSeq(summaries, OfCategory)
    IN [k \in 1..Len(listed) |-> listed[k].asset_id]

\* asset_id in catalog
InCatalog(asset_id) == DictHas(by_id, asset_id)

(***************************************************************************)
(* The validation of a scene: ObjectSpec.validate_placement,               *)
(* src/neoscene/core/scene_schema.py, and SceneAgent._parse_and_validate   *)
(* with _validate_asset_references, src/neoscene/core/scene_agent.py.      *)
(***************************************************************************)
ValueError(message) == [type |-> "ValueError", message |-> message]

\* mutant: the validator accepts every placement
PlacementNeverRaises(layout, insts) == FALSE

\* validate_placement raises
PlacementRaises(layout, insts) == layout # None /\ insts # None

\* ObjectSpec(asset_id=..., name=..., layout=..., instances=...)
ConstructObject(asset_id, name, layout, insts) ==
    IF PlacementRaises(layout, insts)
    THEN Raised(ValueError("Cannot specify both 'layout' and 'instances'"))
    ELSE Returned(ObjectSpec(asset_id, name, layout, insts))

SceneValidationError(validation_errors) ==
    [type |-> "SceneValidationError", validation_errors |-> validation_errors]

Indices(seq) == [k \in 1..Len(seq) |-> k]

\* SceneSpec.model_validate(data): the errors of the objects that cannot be built,
\* each as f"{err['loc']}: {err['msg']}"
SchemaErrors(data) ==
    LET Fails(k) ==
            ConstructObject(data.objects[k].asset_id, data.objects[k].name,
                            data.objects[k].layout, data.objects[k].instances).kind = "raised"
        failing == SelectSeq(Indices(data.objects), Fails)
    IN [j \in 1..Len(failing) |->
           [loc |-> <<"objects", failing[j] - 1>>,
            msg |-> ConstructObject(data.objects[failing[j]].asset_id,
                                    data.objects[failing[j]].name,
                                    data.objects[failing[j]].layout,
                                    data.objects[failing[j]].instances).value.message]]

ReferenceError(kind, asset_id, hint) == [kind |-> kind, asset_id |-> asset_id, hint |-> hint]

\* mutant: the validation stops at the first reference it cannot resolve
FirstErrorOnly(errors) == Slice(errors, 1)

\* line 423: return errors
Collected(errors) == errors

\* _validate_asset_references(spec)
validate_asset_references(spec) ==
    LET environment ==
            IF ~InCatalog(spec.environment.asset_id)
            THEN <<ReferenceError("Environment", spec.environment.asset_id,
                                  list_all(Some("environment")))>>
            ELSE <<>>
        ObjectFails(k) == ~InCatalog(spec.objects[k].asset_id)
        objects == SelectSeq(Indices(spec.objects), ObjectFails)
        Similar(k, a) ==
            \/ contains(lower(spec.objects[k].asset_id), lower(a))
            \/ contains(lower(a), lower(spec.objects[k].asset_id))
        CameraFails(k) ==
            /\ spec.cameras[k].asset_id # None
            /\ The(spec.cameras[k].asset_id) # <<>>
            /\ ~InCatalog(The(spec.cameras[k].asset_id))
        cameras == SelectSeq(Indices(spec.cameras), CameraFails)
    IN Collected(
        environment
        \o [j \in 1..Len(objects) |->
               ReferenceError("Object", spec.objects[objects[j]].asset_id,
                   SelectSeq(list_all(None), LAMBDA a : Similar(objects[j], a)))]
        \o [j \in 1..Len(cameras) |->
               ReferenceError("Camera", The(spec.cameras[cameras[j]].asset_id), <<>>)])

\* _parse_and_validate, from the parsed JSON on
parse_and_validate(data) ==
    IF SchemaErrors(data) # <<>>
    THEN Raised(SceneValidationError(SchemaErrors(data)))
    ELSE IF validate_asset_references(data) # <<>>
    THEN Raised(SceneValidationError(validate_asset_references(data)))
    ELSE Returned(data)

(***************************************************************************)
(* The texts, the asset trees and the arguments explored.                  *)
(***************************************************************************)
\* the texts of the manifests and of the calls
Text ==
    [tree |-> <<"t", "r", "e", "e">>,
     Tree |-> <<"T", "r", "e", "e">>,
     treeb |-> <<"t", "r", "e", "e", "b">>,
     trend |-> <<"t", "r", "e", "n", "d">>,
     tread |-> <<"t", "r", "e", "a", "d">>,
     trexa |-> <<"t", "r", "e", "x", "a">>,
     trex |-> <<"t", "r", "e", "x">>,
     tre |-> <<"t", "r", "e">>,
     oak |-> <<"o", "a", "k">>,
     Oak |-> <<"O", "a", "k">>,
     car |-> <<"c", "a", "r">>,
     Car |-> <<"C", "a", "r">>,
     cart |-> <<"c", "a", "r", "t">>,
     Cart |-> <<"C", "a", "r", "t">>,
     rock |-> <<"r", "o", "c", "k">>,
     ghost |-> <<"g", "h", "o", "s", "t">>,
     zz |-> <<"z", "z">>,
     loc |-> <<"l", "o", "c">>]

NoSemantics == Semantics(<<>>, <<>>)

\* an asset tree with two manifests that do not load: one is no JSON, one has a
\* category outside AssetCategory
Orchard ==
    << ManifestFile("nature/tree", TRUE,
           AssetManifest(Text.tree, Text.Oak, "nature", <<Text.oak>>, <<>>, "local", NoSemantics)),
       ManifestFile("nature/rock", FALSE,
           AssetManifest(Text.rock, Text.rock, "nature", <<Text.tree>>, <<Text.cart>>, "local",
                         NoSemantics)),
       ManifestFile("props/treeb", TRUE,
           AssetManifest(Text.treeb, Text.Tree, "prop", <<Text.oak>>, <<>>, "remote", NoSemantics)),
       ManifestFile("vehicles/trend", TRUE,
           AssetManifest(Text.trend, Text.Car, "vehicle", <<Text.car, Text.Tree>>, <<Text.cart>>,
                         "remote", NoSemantics)),
       ManifestFile("props/ghost", TRUE,
           AssetManifest(Text.ghost, Text.tree, "furniture", <<Text.tree>>, <<Text.cart>>, "local",
                         NoSemantics)),
       ManifestFile("vehicles/tread", TRUE,
           AssetManifest(Text.tread, Text.cart, "vehicle", <<Text.car>>, <<Text.cart>>, "local",
                         Semantics(<<Text.tree>>, <<Text.treeb>>))),
       ManifestFile("props/trexa", TRUE,
           AssetManifest(Text.trexa, Text.zz, "prop", <<>>, <<Text.Cart>>, "local", NoSemantics)) >>

Reversed(seq) == [k \in 1..Len(seq) |-> seq[Len(seq) + 1 - k]]

Digits == <<"0", "1", "2", "3", "4", "5", "6", "7", "8", "9">>

\* an asset no query matches, then more remote assets than best_match looks at, and
\* a local one behind them
Fleet ==
    << ManifestFile("vehicles/zz", TRUE,
           AssetManifest(Text.zz, Text.zz, "vehicle", <<>>, <<>>, "local", NoSemantics)) >>
    \o [k \in 1..best_match_limit |->
        ManifestFile("vehicles/remote", TRUE,
            AssetManifest(<<"r", Digits[k]>>, Text.Car, "vehicle", <<Text.cart>>, <<>>, "remote",
                          NoSemantics))]
    \o << ManifestFile("vehicles/loc", TRUE,
              AssetManifest(Text.loc, Text.Car, "vehicle", <<Text.cart>>, <<>>, "local",
                            NoSemantics)) >>

\* two manifest files that declare the same asset_id, in two categories
Twins ==
    << ManifestFile("nature/tree", TRUE,
           AssetManifest(Text.tree, Text.Oak, "nature", <<Text.oak>>, <<>>, "local", NoSemantics)),
       ManifestFile("props/tree", TRUE,
           AssetManifest(Text.tree, Text.Tree, "prop", <<Text.car>>, <<Text.cart>>, "local",
                         NoSemantics)),
       ManifestFile("vehicles/zz", TRUE,
           AssetManifest(Text.zz, Text.zz, "vehicle", <<>>, <<>>, "local", NoSemantics)) >>

Trees == {<<>>, Orchard, Reversed(Orchard), Fleet, Twins}

AssetIds == {Text.tree, Text.Tree, Text.trex, Text.tre, Text.zz, Text.ghost, Text.rock, Text.trend}

Queries == {Text.tree, Text.car, Text.Oak, <<>>}

Categories == {None, Some("nature"), Some("prop"), Some("vehicle")}

MaxLimit == 3

Limits == 0..MaxLimit \cup {search_limit}

Concepts == {Text.cart, Text.Cart, Text.zz}

MaxRefs == 2

Placements ==
    {None, Some([type |-> "grid", origin |-> <<0, 0, 0>>, rows |-> 1, cols |-> 2,
                 spacing |-> <<1, 1>>, yaw_variation_deg |-> 0])}

InstanceLists == {None, Some(<<>>), Some(<<InstanceSpec(Pose(<<5, 0, 0>>, 0), None)>>)}

\* the objects of the JSON a scene is parsed from
ObjectData ==
    { ObjectSpec(Text.tree, None, None, None),
      ObjectSpec(Text.ghost, None, None, None),
      ObjectSpec(Text.trex, None, CHOOSE p \in Placements : p # None, None),
      ObjectSpec(Text.tree, None, CHOOSE p \in Placements : p # None, Some(<<>>)) }

CameraData ==
    { CameraSpec("cam", None, Pose(<<0, 0, 5>>, 0), None),
      CameraSpec("cam", Some(Text.trend), Pose(<<0, 0, 5>>, 0), None),
      CameraSpec("cam", Some(Text.ghost), Pose(<<0, 0, 5>>, 0), None) }

SceneData ==
    {SceneSpec("test", EnvironmentSpec(e), o, c, <<>>) :
        e \in {Text.tree, Text.ghost},
        o \in UNION {[1..n -> ObjectData] : n \in 0..MaxRefs},
        c \in UNION {[1..n -> CameraData] : n \in 0..MaxRefs}}

(***************************************************************************)
(* The caller of the catalog: it constructs the catalog over a tree, then  *)
(* makes one call.                                                         *)
(***************************************************************************)
Respond(op, args, value) ==
    /\ request' = Some([op |-> op, args |-> args])
    /\ answer' = Some(value)
    /\ cpc' = "answered"
    /\ UNCHANGED <<manifests, scanned, indexVars>>
    /\ UNCHANGED <<callVars, pc, layoutVars, compileVars, threadVars, extVars>>

Get ==
    /\ cpc = "ready"
    /\ \E asset_id \in AssetIds : Respond("get", <<asset_id>>, get(asset_id))

Search ==
    /\ cpc = "ready"
    /\ \E query \in Queries, category \in Categories, limit \in Limits :
          Respond("search", <<query, category, limit>>,
                  Returned(search(query, category, limit)))

BestMatch ==
    /\ cpc = "ready"
    /\ \E text \in Queries, category \in Categories, prefer_local \in BOOLEAN :
          Respond("best_match", <<text, category, prefer_local>>,
                  Returned(best_match(text, category, prefer_local)))

FindFallback ==
    /\ cpc = "ready"
    /\ \E concept \in Concepts, category \in Categories :
          Respond("find_fallback", <<concept, category>>,
                  Returned(find_fallback(concept, category)))

ConstructObjectSpec ==
    /\ cpc = "ready"
    /\ \E layout \in Placements, insts \in InstanceLists :
          Respond("ObjectSpec", <<layout, insts>>,
                  ConstructObject(Text.tree, None, layout, insts))

ParseAndValidate ==
    /\ cpc = "ready"
    /\ \E data \in SceneData :
          Respond("parse_and_validate", <<data>>, parse_and_validate(data))

InitCatalog ==
    /\ mode = "catalog"
    /\ seed = 0
    /\ scene = NoScene
    /\ obj = NoObject
    /\ call = 1
    /\ first = None
    /\ pc = "off"
    /\ NoLocals
    /\ NoDocument
    /\ NoThread
    /\ NoExt
    /\ manifests \in Trees
    /\ scanned = 0
    /\ by_id = <<>> /\ paths = <<>> /\ summaries = <<>>
    /\ by_category = <<>> /\ by_tag = <<>> /\ by_fallback = <<>>
    /\ cpc = "scan"
    /\ request = None
    /\ answer = None

NextCatalog ==
    \/ ScanManifest
    \/ ScanDone
    \/ Get
    \/ Search
    \/ BestMatch
    \/ FindFallback
    \/ ConstructObjectSpec
    \/ ParseAndValidate

SpecCatalog == InitCatalog /\ [][NextCatalog]_vars

(***************************************************************************)
(* The claims about the validation of a scene and about the catalog.       *)
(***************************************************************************)
Asked(op) == cpc = "answered" /\ The(request).op = op

Args == The(request).args

Answer == The(answer)

\* the manifests of the tree that load, in glob order
Loadable == SelectSeq(manifests, LAMBDA file : ~LoadRaises(file))

LoadableIds == {Loadable[k].data.asset_id : k \in 1..Len(Loadable)}

Range(seq) == {seq[k] : k \in 1..Len(seq)}

BothSet(o) == o.layout # None /\ o.instances # None

\* C11: constructing an ObjectSpec with both layout and instances set fails with
\* the message that names the two fields; with one of them or neither it succeeds
\* and the object holds the fields as given; no scene that validation returns
\* holds an object with both set.
C11_BothIsRejected ==
    /\ Asked("ObjectSpec") =>
          IF Args[1] # None /\ Args[2] # None
          THEN /\ Answer.kind = "raised"
               /\ Answer.value.message = "Cannot specify both 'layout' and 'instances'"
          ELSE /\ Answer.kind = "returned"
               /\ Answer.value.layout = Args[1]
               /\ Answer.value.instances = Args[2]
    /\ Asked("parse_and_validate") =>
          IF \E k \in 1..Len(Args[1].objects) : BothSet(Args[1].objects[k])
          THEN Answer.kind = "raised"
          ELSE Answer.kind = "returned" =>
                  \A k \in 1..Len(Answer.value.objects) : ~BothSet(Answer.value.objects[k])

C11_Witness ==
    /\ Asked("ObjectSpec")
    /\ Args[1] # None
    /\ Args[2] = Some(<<>>)
    /\ Answer.kind = "raised"

\* C12: get(id) returns the manifest whose asset_id is id when a manifest with that
\* id was loaded; otherwise it raises AssetNotFoundError with that id and at most 3
\* suggestions, each the id of a loaded manifest.
C12_GetExactOrRaises ==
    Asked("get") =>
        IF Args[1] \in LoadableIds
        THEN /\ Answer.kind = "returned"
             /\ Answer.value.asset_id = Args[1]
             /\ \E k \in 1..Len(Loadable) : Loadable[k].data = Answer.value
        ELSE /\ Answer.kind = "raised"
             /\ Answer.value.type = "AssetNotFoundError"
             /\ Answer.value.asset_id = Args[1]
             /\ Len(Answer.value.suggestions) <= 3
             /\ Range(Answer.value.suggestions) \subseteq LoadableIds

C12_Witness ==
    /\ Asked("get")
    /\ Answer.kind = "raised"
    /\ Len(Answer.value.suggestions) = 3
    /\ Cardinality(LoadableIds) > 3

\* the id contains the unknown id or is contained in it, whatever the case
ByContainment(unknown_id, id) ==
    contains(lower(unknown_id), lower(id)) \/ contains(lower(id), lower(unknown_id))

\* the id and the unknown id have the same first 3 characters, whatever the case
BySharedPrefix(unknown_id, id) ==
    /\ Len(unknown_id) >= 3
    /\ Len(id) >= 3
    /\ SubSeq(lower(unknown_id), 1, 3) = SubSeq(lower(id), 1, 3)

\* C13: when get(unknown_id) fails and some catalog id matches by containment or by
\* the shared 3-character prefix, the suggestions are not empty, every suggestion
\* matching by containment precedes every suggestion matching by the prefix only,
\* and a containment match is left out only if 3 containment matches are returned.
C13_ContainmentFirst ==
    Asked("get") /\ Answer.kind = "raised" =>
        LET unknown_id == Args[1]
            suggestions == Answer.value.suggestions
            PrefixOnly(id) ==
                BySharedPrefix(unknown_id, id) /\ ~ByContainment(unknown_id, id)
        IN /\ (\E id \in LoadableIds :
                   ByContainment(unknown_id, id) \/ BySharedPrefix(unknown_id, id))
                => suggestions # <<>>
           /\ \A j, k \in 1..Len(suggestions) :
                  j < k => ~(PrefixOnly(suggestions[j])
                             /\ ByContainment(unknown_id, suggestions[k]))
           /\ \A id \in LoadableIds :
                  ByContainment(unknown_id, id) /\ id \notin Range(suggestions)
                  => \A k \in 1..Len(suggestions) :
                         ByContainment(unknown_id, suggestions[k])

\* the place of a summary in the scan order
ScanPlace(s) == CHOOSE k \in 1..Len(summaries) : summaries[k] = s

\* a ranks before b: its score is higher, or the same and it was scanned earlier
RanksBefore(a, b, query) ==
    \/ score(a, query) > score(b, query)
    \/ score(a, query) = score(b, query) /\ ScanPlace(a) < ScanPlace(b)

Candidates(query, category) ==
    {s \in Range(summaries) :
        /\ category = None \/ s.category = The(category)
        /\ score(s, query) > 0}

\* C14: search(query, category, limit) returns candidates only (of the category,
\* with a score above 0), in descending score with ties in scan order, and they
\* are the first limit of all candidates in that order.
C14_SearchSortedTruncated ==
    Asked("search") =>
        LET query == Args[1]
            candidates == Candidates(query, Args[2])
            limit == Args[3]
            found == Answer.value
        IN /\ Range(found) \subseteq candidates
           /\ Len(found) = IF limit < Cardinality(candidates)
                           THEN limit ELSE Cardinality(candidates)
           /\ \A j, k \in 1..Len(found) : j < k => RanksBefore(found[j], found[k], query)
           /\ \A s \in candidates \ Range(found) :
                  \A k \in 1..Len(found) : RanksBefore(found[k], s, query)

C14_Witness ==
    /\ Asked("search")
    /\ Args[2] # None
    /\ Len(Answer.value) = 2
    /\ score(Answer.value[1], Args[1]) = score(Answer.value[2], Args[1])
    /\ Cardinality(Candidates(Args[1], Args[2])) > Args[3]
    /\ \E s \in Range(summaries) : s.category = The(Args[2]) /\ score(s, Args[1]) = 0

\* C15: in the result of search, an asset of the category whose id equals the
\* query (case-insensitively) comes before every asset whose id only contains the
\* query: if the latter is returned, so is the former, earlier.
C15_ExactIdFirst ==
    Asked("search") =>
        LET query == lower(Args[1])
            found == Answer.value
            OfCategory(s) == Args[2] = None \/ s.category = The(Args[2])
        IN \A a, b \in {s \in Range(summaries) : OfCategory(s)} :
               /\ lower(a.asset_id) = query
               /\ lower(b.asset_id) # query
               /\ contains(query, lower(b.asset_id))
               /\ b \in Range(found)
               => \E j, k \in 1..Len(found) : j < k /\ found[j] = a /\ found[k] = b

\* every candidate, ranked: the summaries of the category that match, best first
Ranked(text, category) == search(text, category, Len(summaries))

\* C16: best_match(text, category, prefer_local) returns nothing when nothing
\* matches; with prefer_local, the highest-ranked matching local asset whenever
\* one matches, however many remote ones rank above it; otherwise the top-ranked
\* match.
C16_LocalPreferred ==
    Asked("best_match") =>
        LET ranked == Ranked(Args[1], Args[2])
            locals == SelectSeq(ranked, LAMBDA s : s.availability = "local")
        IN Answer.value =
              IF ranked = <<>> THEN None
              ELSE IF Args[3] /\ locals # <<>>
              THEN Some(DictGet(by_id, locals[1].asset_id))
              ELSE Some(DictGet(by_id, ranked[1].asset_id))

\* the manifest lists the concept in fallback_for, whatever the case
ListsConcept(manifest, concept) ==
    \E k \in 1..Len(manifest.fallback_for) :
        lower(manifest.fallback_for[k]) = lower(concept)

\* C17: find_fallback(concept, category) returns nothing, or a manifest that lists
\* the concept in fallback_for and has the category when one is given; it is a
\* local one whenever such a local manifest exists.
C17_FallbackOfCategory ==
    Asked("find_fallback") /\ Answer.value # None =>
        LET manifest == The(Answer.value)
            Eligible(m) ==
                /\ ListsConcept(m, Args[1])
                /\ Args[2] = None \/ m.category = The(Args[2])
        IN /\ Eligible(manifest)
           /\ (\E k \in 1..Len(Loadable) :
                   Eligible(Loadable[k].data) /\ Loadable[k].data.availability = "local")
              => manifest.availability = "local"

Lists(index) == UNION {Range(index[k].value) : k \in 1..Len(index)}

\* the ids and folders the indices hold
Indexed ==
    Range(DictKeys(by_id)) \cup Range(DictKeys(paths))
    \cup {summaries[k].asset_id : k \in 1..Len(summaries)}
    \cup Lists(by_category) \cup Lists(by_tag) \cup Lists(by_fallback)

\* of the files scanned so far that loaded and declare asset_id, the last one
LastOf(asset_id) ==
    LET Declares(k) == ~LoadRaises(manifests[k]) /\ manifests[k].data.asset_id = asset_id
    IN manifests[CHOOSE k \in 1..scanned :
                    Declares(k) /\ \A j \in (k + 1)..scanned : ~Declares(j)]

\* the manifest is in every index it belongs to; the id index and the path index
\* are dicts, which hold under an asset_id the last manifest that declares it
InEveryIndex(file) ==
    LET m == file.data
    IN /\ DictHas(by_id, m.asset_id) /\ DictGet(by_id, m.asset_id) = LastOf(m.asset_id).data
       /\ DictHas(paths, m.asset_id)
       /\ DictGet(paths, m.asset_id) = LastOf(m.asset_id).folder
       /\ AssetSummary(m, file.folder) \in Range(summaries)
       /\ DictHas(by_category, m.category)
       /\ m.asset_id \in Range(DictGet(by_category, m.category))
       /\ \A k \in 1..Len(m.tags) :
              /\ DictHas(by_tag, lower(m.tags[k]))
              /\ m.asset_id \in Range(DictGet(by_tag, lower(m.tags[k])))
       /\ \A k \in 1..Len(m.fallback_for) :
              /\ DictHas(by_fallback, lower(m.fallback_for[k]))
              /\ m.asset_id \in Range(DictGet(by_fallback, lower(m.fallback_for[k])))

\* C18: the construction of the catalog goes through every manifest file of the
\* tree; one that fails to load or validate is in no index, and every other one is
\* in every index it belongs to.
C18_BadManifestSkipped ==
    /\ cpc # "scan" => scanned = Len(manifests)
    /\ \A k \in 1..scanned :
          IF LoadRaises(manifests[k])
          THEN /\ manifests[k].data.asset_id \notin Indexed
               /\ manifests[k].folder \notin Range([j \in 1..Len(paths) |-> paths[j].value])
               /\ \A j \in 1..Len(summaries) : summaries[j].path # manifests[k].folder
          ELSE InEveryIndex(manifests[k])

C18_Witness ==
    /\ cpc = "ready"
    /\ \E j, k \in 1..Len(manifests) :
          /\ j < k
          /\ ~manifests[j].json
          /\ ValidationRaises(manifests[k].data)
          /\ \E l \in (k + 1)..Len(manifests) : InEveryIndex(manifests[l])

\* the asset ids a scene refers to and the catalog does not hold: the
\* environment's, then the objects', then the cameras'
Unresolved(spec) ==
    LET Missing(asset_id) == asset_id \notin LoadableIds
        objects == SelectSeq(spec.objects, LAMBDA o : Missing(o.asset_id))
        cameras == SelectSeq(spec.cameras,
                       LAMBDA c : c.asset_id # None /\ Missing(The(c.asset_id)))
    IN (IF Missing(spec.environment.asset_id)
        THEN <<[kind |-> "Environment", asset_id |-> spec.environment.asset_id]>>
        ELSE <<>>)
       \o [k \in 1..Len(objects) |-> [kind |-> "Object", asset_id |-> objects[k].asset_id]]
       \o [k \in 1..Len(cameras) |->
              [kind |-> "Camera", asset_id |-> The(cameras[k].asset_id)]]

Frame ==
    [pc |-> pc, obj |-> obj, instances |-> instances, rng |-> rng, row |-> row,
     col |-> col, i |-> i, attempt |-> attempt, x |-> x, y |-> y,
     placed_positions |-> placed_positions, accepted |-> accepted, asset |-> asset,
     worldbody |-> worldbody, all_sensors |-> all_sensors, oi |-> oi,
     expanded |-> expanded, loads |-> loads, result |-> result, error |-> error]

\* the frame of a thread that is about to call scene_to_mjcf
NewFrame ==
    [pc |-> "start", obj |-> NoObject, instances |-> <<>>, rng |-> None, row |-> 0,
     col |-> 0, i |-> 0, attempt |-> 0, x |-> 0, y |-> 0, placed_positions |-> <<>>,
     accepted |-> <<>>, asset |-> <<>>, worldbody |-> <<>>, all_sensors |-> <<>>,
     oi |-> 0, expanded |-> <<>>, loads |-> <<>>, result |-> None, error |-> None]

\* mutant: the threads share one generator, which the thread that resumes finds as
\* the other one left it
SharedRng(frame) == IF rng # None /\ frame.rng # None THEN rng ELSE frame.rng

\* line 91, 113: rng is a local, the thread finds its own generator as it left it
ResumedRng(frame) == frame.rng

Switch ==
    /\ other # None
    /\ LET frame == The(other)
       IN /\ pc' = frame.pc /\ obj' = frame.obj /\ instances' = frame.instances
          /\ rng' = ResumedRng(frame)
          /\ row' = frame.row /\ col' = frame.col /\ i' = frame.i
          /\ attempt' = frame.attempt /\ x' = frame.x /\ y' = frame.y
          /\ placed_positions' = frame.placed_positions /\ accepted' = frame.accepted
          /\ asset' = frame.asset /\ worldbody' = frame.worldbody
          /\ all_sensors' = frame.all_sensors /\ oi' = frame.oi
          /\ expanded' = frame.expanded /\ loads' = frame.loads
          /\ result' = frame.result /\ error' = frame.error
          /\ interleaved' = (interleaved \/ (rng # None /\ frame.rng # None))
    /\ other' = Some(Frame)
    /\ running' = 3 - running
    /\ UNCHANGED <<callVars, catalogVars, extVars>>

MaxConcurrentObjects == 1

ConcurrentObjects ==
    { ObjectSpec("crate", None, None, None),
      ObjectSpec("tree", Some("oak"), None,
          Some(<<InstanceSpec(Pose(<<1, 2, 3>>, 45), Some("a")),
                 InstanceSpec(Pose(<<4, 5, 6>>, 0), None)>>)),
      ObjectSpec("tree", Some("pine"),
          Some([type |-> "random", center |-> <<5, 5, 1>>, radius |-> 3, count |-> 3,
                min_separation |-> 2, random_yaw |-> TRUE]), None),
      ObjectSpec("crate", Some("box"),
          Some([type |-> "grid", origin |-> <<1, -1, 2>>, rows |-> 1, cols |-> 2,
                spacing |-> <<2, 3>>, yaw_variation_deg |-> 10]), None) }

ConcurrentScenes ==
    {SceneSpec("bare", EnvironmentSpec("ground"), l, <<>>, <<>>) :
        l \in UNION {[1..n -> ConcurrentObjects] : n \in 0..MaxConcurrentObjects}}

InitConcurrent ==
    /\ mode = "compile"
    /\ seed \in Seeds
    /\ scene \in ConcurrentScenes
    /\ obj = NoObject
    /\ call = 1
    /\ first = None
    /\ pc = "start"
    /\ NoLocals
    /\ NoDocument
    /\ NoCatalog
    /\ NoExt
    /\ running = 1
    /\ other = Some(NewFrame)
    /\ interleaved = FALSE

NextConcurrent ==
    \/ LayoutStep
    \/ AddLights
    \/ AddEnvironment
    \/ ResolveObject
    \/ AddInstances
    \/ Finish
    \/ Switch

SpecConcurrent == InitConcurrent /\ [][NextConcurrent]_vars

Returns(frame) == frame.pc \in {"done", "raised"}

\* C20: two compiles of the same scene with the same seed that run concurrently
\* on one catalog return the same document (or raise the same exception),
\* however their steps interleave.
C20_ConcurrentCompilesAgree ==
    other # None /\ Returns(Frame) /\ Returns(The(other)) =>
        /\ result = The(other).result
        /\ error = The(other).error
        /\ expanded = The(other).expanded

C20_Witness ==
    /\ other # None
    /\ pc = "done"
    /\ The(other).pc = "done"
    /\ interleaved
    /\ result # None
    /\ \E k \in 1..Len(scene.objects) : IsRandom(scene.objects[k])

(***************************************************************************)
(* SceneAgent.generate_and_repair, src/neoscene/core/scene_agent.py.       *)
(*                                                                         *)
(* What llm.generate answers is either the exception LLMAPIError or a      *)
(* text: one that holds no JSON, one whose JSON does not parse, or one     *)
(* that holds the JSON of some data.                                       *)
(***************************************************************************)
LLMAPIError == [raises |-> "LLMAPIError"]

Response(json, data) == [raises |-> "", json |-> json, data |-> data]

LLMError == [type |-> "LLMError", llm_provider |-> "gemini"]

SceneGenerationError(attempts, errors) ==
    [type |-> "SceneGenerationError", attempts |-> attempts, errors |-> errors]

\* SceneValidationError(..., validation_errors=..., raw_data=...)
SceneValidationErrorOf(validation_errors, raw_data) ==
    [type |-> "SceneValidationError", validation_errors |-> validation_errors,
     raw_data |-> raw_data]

\* _parse_and_validate(raw_response, original_prompt), line 321-382
ParseResponse(raw_response) ==
    IF raw_response.json = "none"
    THEN Raised(SceneValidationErrorOf(<<"No valid JSON found in response">>, raw_response))
    ELSE IF raw_response.json = "invalid"
    THEN Raised(SceneValidationErrorOf(<<"JSONDecodeError">>, raw_response))
    ELSE IF parse_and_validate(raw_response.data).kind = "raised"
    THEN Raised(SceneValidationErrorOf(
             parse_and_validate(raw_response.data).value.validation_errors, raw_response))
    ELSE parse_and_validate(raw_response.data)

GeneratePrompt == [kind |-> "generate", invalid_json |-> None, errors |-> <<>>]

\* line 488-505: the repair prompt quotes the invalid JSON and its errors
RepairPrompt(invalid_json, errors) ==
    [kind |-> "repair", invalid_json |-> Some(invalid_json), errors |-> errors]

\* mutant: the loop gives up one attempt early
GivesUpEarly(a) == a < max_repair_attempts - 1

\* line 460: if attempt < self.max_repair_attempts: continue
Continues(a) == a < max_repair_attempts

\* one iteration of the loop of line 447: the call of the LLM with a prompt, and
\* what the try statement makes of the outcome
Attempt(prompt, outcome) ==
    /\ llm_calls' = Append(llm_calls, [prompt |-> prompt, response |-> outcome])
    /\ request' = Some([op |-> "generate_and_repair", args |-> <<>>])
    /\ IF outcome = LLMAPIError
       THEN /\ answer' = Some(Raised(LLMError))
            /\ cpc' = "answered"
            /\ UNCHANGED <<repair_attempt, last_error>>
       ELSE IF ParseResponse(outcome).kind = "returned"
       THEN /\ answer' = Some(ParseResponse(outcome))
            /\ cpc' = "answered"
            /\ UNCHANGED <<repair_attempt, last_error>>
       ELSE /\ last_error' = Some(ParseResponse(outcome).value)
            /\ IF Continues(repair_attempt)
               THEN /\ repair_attempt' = repair_attempt + 1
                    /\ cpc' = "repair"
                    /\ answer' = answer
               ELSE /\ answer' = Some(Raised(SceneGenerationError(
                                      max_repair_attempts + 1,
                                      ParseResponse(outcome).value.validation_errors)))
                    /\ cpc' = "answered"
                    /\ UNCHANGED repair_attempt
    /\ UNCHANGED <<manifests, scanned, indexVars, max_repair_attempts>>
    /\ UNCHANGED <<callVars, pc, layoutVars, compileVars, threadVars>>
    /\ UNCHANGED <<navigatorVars, runnerVars, sessionVars>>

\* the scenes the LLM writes: a valid one, one that names an asset the catalog
\* does not hold, one whose object gives both a layout and instances
AgentScenes ==
    { SceneSpec("test", EnvironmentSpec(Text.tree), <<ObjectSpec(Text.tree, None, None, None)>>,
                <<>>, <<>>),
      SceneSpec("test", EnvironmentSpec(Text.tree), <<ObjectSpec(Text.zz, None, None, None)>>,
                <<>>, <<>>),
      SceneSpec("test", EnvironmentSpec(Text.tree),
                <<ObjectSpec(Text.tree, None, CHOOSE p \in Placements : p # None, Some(<<>>))>>,
                <<>>, <<>>) }

LLMOutcomes ==
    {LLMAPIError, Response("none", None), Response("invalid", None)}
        \cup {Response("valid", data) : data \in AgentScenes}

\* line 448-449: attempt 0 calls generate_scene_spec
GenerateSceneSpec ==
    /\ cpc = "ready"
    /\ repair_attempt = 0
    /\ \E outcome \in LLMOutcomes : Attempt(GeneratePrompt, outcome)

\* line 450-456: a later attempt calls _repair_scene_spec with the last error
RepairSceneSpec ==
    /\ cpc = "repair"
    /\ repair_attempt \in 1..max_repair_attempts
    /\ \E outcome \in LLMOutcomes :
          Attempt(RepairPrompt(The(last_error).raw_data, The(last_error).validation_errors),
                  outcome)

MaxRepairAttempts == 2

InitAgent ==
    /\ mode = "agent"
    /\ seed = 0
    /\ scene = NoScene
    /\ obj = NoObject
    /\ call = 1
    /\ first = None
    /\ pc = "off"
    /\ NoLocals
    /\ NoDocument
    /\ NoThread
    /\ NoNavigator /\ NoRunner /\ NoSession
    /\ manifests \in Trees
    /\ scanned = 0
    /\ by_id = <<>> /\ paths = <<>> /\ summaries = <<>>
    /\ by_category = <<>> /\ by_tag = <<>> /\ by_fallback = <<>>
    /\ cpc = "scan"
    /\ request = None
    /\ answer = None
    /\ max_repair_attempts \in 0..MaxRepairAttempts
    /\ repair_attempt = 0
    /\ last_error = None
    /\ llm_calls = <<>>

NextAgent ==
    \/ ScanManifest
    \/ ScanDone
    \/ GenerateSceneSpec
    \/ RepairSceneSpec

SpecAgent == InitAgent /\ [][NextAgent]_vars

(***************************************************************************)
(* Claim C21.                                                              *)
(***************************************************************************)
\* the k-th call of the LLM ended in a SceneValidationError
FailedValidation(k) ==
    /\ llm_calls[k].response # LLMAPIError
    /\ ParseResponse(llm_calls[k].response).kind = "raised"

\* C21: generate_and_repair calls the LLM at most max_repair_attempts + 1 times;
\* the first call carries the generation prompt and every later call a repair
\* prompt that quotes the SceneValidationError of the call before it; every call
\* but the last failed validation, so the first scene that validates is returned
\* with no further call; and the call raises SceneGenerationError exactly when
\* max_repair_attempts + 1 calls were made and all of them failed validation.
C21_RepairLoopBounded ==
    mode = "agent" =>
        /\ Len(llm_calls) <= max_repair_attempts + 1
        /\ \A k \in 1..Len(llm_calls) :
              /\ (k = 1) = (llm_calls[k].prompt = GeneratePrompt)
              /\ k > 1 =>
                    /\ FailedValidation(k - 1)
                    /\ llm_calls[k].prompt =
                          RepairPrompt(llm_calls[k - 1].response,
                              ParseResponse(llm_calls[k - 1].response).value.validation_errors)
        /\ cpc = "answered" =>
              LET n == Len(llm_calls)
                  last == llm_calls[n].response
                  validates == last # LLMAPIError /\ ParseResponse(last).kind = "returned"
              IN /\ n >= 1
                 /\ validates => The(answer) = Returned(last.data)
                 /\ The(answer).kind = "returned" => validates
                 /\ (The(answer).kind = "raised"
                        /\ The(answer).value.type = "SceneGenerationError")
                    = (n = max_repair_attempts + 1 /\ \A k \in 1..n : FailedValidation(k))

\* a repair that succeeded: the second call returned the scene
C21_Witness ==
    /\ mode = "agent"
    /\ cpc = "answered"
    /\ Len(llm_calls) = 2
    /\ max_repair_attempts = 2
    /\ The(answer).kind = "returned"
    /\ llm_calls[2].prompt.kind = "repair"
    /\ llm_calls[2].prompt.errors # <<>>

(***************************************************************************)
(* Claims C22, C23 and C29, on scene_to_mjcf and _layout_instances.        *)
(***************************************************************************)
\* the names the fragment of an asset declares
Declared(asset_id) ==
    LET elems == Files[asset_id].asset \o Files[asset_id].worldbody \o Files[asset_id].sensor
    IN {The(elems[k].name) : k \in {j \in 1..Len(elems) : elems[j].name # None}}

\* the top-level bodies of the instances of the objects of an asset, as
\* <<object, instance, index in worldbody>>
Placed(asset_id) ==
    UNION {{<<k, j, FirstBodyOf(k) + j>> : j \in 1..Len(expanded[k])} :
              k \in {o \in 1..Len(scene.objects) : scene.objects[o].asset_id = asset_id}}

\* C22: when an asset is placed twice in a scene, its top-level bodies have
\* distinct names; no name and no attribute of the compiled document has a name
\* the asset's fragment declares as its value; and the elements inlined in each
\* body are the fragment's, with every declared name and every reference to one
\* prefixed with the body's name and every other reference left as it was.
C22_InstancesIsolated ==
    (mode = "compile" /\ pc = "done") =>
        \A asset_id \in ObjectAssetIds(scene) :
            Cardinality(Placed(asset_id)) >= 2 =>
                /\ \A p, q \in Placed(asset_id) :
                      p # q => worldbody[p[3]].name # worldbody[q[3]].name
                /\ \A k \in DOMAIN DocElements(The(result)) :
                      LET e == DocElements(The(result))[k]
                      IN /\ e.name # None => The(e.name) \notin Declared(asset_id)
                         /\ \A r \in e.refs : r[2] \notin Declared(asset_id)
                /\ \A p \in Placed(asset_id) :
                      LET body == worldbody[p[3]]
                          fragment == Files[asset_id].worldbody
                      IN /\ Len(body.children) = Len(fragment)
                         /\ \A c \in 1..Len(fragment) :
                               /\ fragment[c].name # None =>
                                     body.children[c].name
                                         = Some(Prefixed(body.name, The(fragment[c].name)))
                               /\ body.children[c].refs =
                                     {<<r[1], IF r[2] \in Declared(asset_id)
                                              THEN Prefixed(body.name, r[2]) ELSE r[2]>> :
                                          r \in fragment[c].refs}

\* C23: an object without a layout expands to its explicit instance list as it
\* is when it has one (the empty list included) and to the single instance at
\* (0, 0, 0) with zero yaw, pitch and roll and no suffix when it has none; the
\* call never changes the ObjectSpec it is given.
C23_NoLayoutExpansion ==
    /\ [](/\ (mode = "layout" /\ pc = "layout_return" /\ obj.layout = None) =>
                 instances = IF obj.instances # None
                             THEN The(obj.instances)
                             ELSE <<[pose |-> [position |-> <<0, 0, 0>>, yaw_deg |-> 0,
                                               pitch_deg |-> 0, roll_deg |-> 0],
                                     name_suffix |-> None]>>
          /\ mode = "compile" =>
                 \A k \in 1..Len(expanded) :
                     scene.objects[k].layout = None =>
                         expanded[k] = IF scene.objects[k].instances # None
                                       THEN The(scene.objects[k].instances)
                                       ELSE <<[pose |-> [position |-> <<0, 0, 0>>,
                                                         yaw_deg |-> 0, pitch_deg |-> 0,
                                                         roll_deg |-> 0],
                                               name_suffix |-> None]>>)
    /\ [][/\ mode = "layout" => obj' = obj
          /\ (mode = "compile" /\ call' = call) => scene' = scene]_vars

\* a direct call returned an explicit list of two instances, the second time too
C23_Witness ==
    /\ mode = "layout" /\ pc = "layout_return" /\ call = 2
    /\ obj.layout = None
    /\ obj.instances # None
    /\ Len(instances) = 2
    /\ instances[1].name_suffix = Some("a")

(***************************************************************************)
(* The compile of a scene, then the compile of the same scene with its     *)
(* other objects reordered, removed or added.                              *)
(***************************************************************************)
\* an object to add to a scene
AddedObject ==
    ObjectSpec("tree", Some("fir"),
        Some([type |-> "random", center |-> <<5, 5, 1>>, radius |-> 3, count |-> 3,
              min_separation |-> 2, random_yaw |-> TRUE]), None)

Reorderings(objects) ==
    {Reversed(objects), <<AddedObject>> \o objects}
        \cup (IF objects = <<>> THEN {} ELSE {Tail(objects)})

\* the caller calls scene_to_mjcf once more, with the same seed and a scene whose
\* objects are the first scene's in another order, or without one, or with one more
CompileCallReordered ==
    /\ mode = "compile"
    /\ pc \in {"done", "raised"}
    /\ call = 1
    /\ call' = 3
    /\ first' = Some([result |-> result, error |-> error, expanded |-> expanded,
                      scene |-> scene])
    /\ \E objects \in Reorderings(scene.objects) : scene' = [scene EXCEPT !.objects = objects]
    /\ pc' = "start"
    /\ obj' = NoObject
    /\ NewLocals
    /\ asset' = <<>> /\ worldbody' = <<>> /\ all_sensors' = <<>> /\ oi' = 0
    /\ expanded' = <<>> /\ loads' = <<>> /\ result' = None /\ error' = None
    /\ UNCHANGED <<mode, seed>>
    /\ UNCHANGED <<catalogVars, threadVars, extVars>>

NextReordered ==
    \/ LayoutStep
    \/ AddLights
    \/ AddEnvironment
    \/ ResolveObject
    \/ AddInstances
    \/ Finish
    \/ CompileCallReordered

SpecReordered == InitCompile /\ [][NextReordered]_vars

\* what _layout_instances reads of an ObjectSpec
SamePlacement(a, b) == a.layout = b.layout /\ a.instances = b.instances

\* C29: the instances of an object depend on its own placement and the seed
\* alone: two objects of one scene with the same placement expand to the same
\* instances, and an object expands to the same instances in the first scene
\* and in the scene whose other objects were reordered, removed or added.
C29_ObjectsIndependent ==
    mode = "compile" =>
        /\ \A k, j \in 1..Len(expanded) :
              SamePlacement(scene.objects[k], scene.objects[j]) => expanded[k] = expanded[j]
        /\ call = 3 =>
              \A k \in 1..Len(expanded) : \A j \in 1..Len(The(first).expanded) :
                  SamePlacement(scene.objects[k], The(first).scene.objects[j])
                      => expanded[k] = The(first).expanded[j]

\* a random layout expanded after a grid with yaw variation in the first scene
\* and before it in the second
C29_Witness ==
    /\ mode = "compile" /\ call = 3 /\ pc = "done"
    /\ Len(scene.objects) = 2
    /\ Len(The(first).expanded) = 2
    /\ IsRandom(scene.objects[1])
    /\ IsGrid(scene.objects[2])
    /\ The(scene.objects[2].layout).yaw_variation_deg > 0
    /\ The(first).scene.objects[2] = scene.objects[1]
    /\ The(first).scene.objects[1] = scene.objects[2]
    /\ expanded[1] = The(first).expanded[2]
    /\ Len(expanded[1]) = 2

(***************************************************************************)
(* RowNavigator, src/neoscene/core/row_navigator.py.                       *)
(*                                                                         *)
(* Speeds are in tenths of m/s, angular velocities in hundredths of rad/s, *)
(* the lateral error in tenths of a metre and the yaw error in tenths of a *)
(* radian; state_timer and turn_time are in simulation time steps.  What   *)
(* detect_lane and get_robot_pose read from the simulation is an input of  *)
(* each step.                                                              *)
(***************************************************************************)
\* NavigatorConfig(max_rows=..., lane_stable_steps=..., turn_time=...), line 30-52
NavigatorConfig(max_rows, lane_stable_steps, turn_time) ==
    [v_nominal |-> 20, v_turn |-> 10, v_enter |-> 15, Kp_lateral |-> 8, Kp_yaw |-> 15,
     turn_radius |-> 4, turn_time |-> turn_time, max_rows |-> max_rows,
     lane_stable_steps |-> lane_stable_steps]

\* detect_lane, line 177-219: has_left, has_right and the lateral error they allow
Perceptions ==
    {p \in [has_left : BOOLEAN, has_right : BOOLEAN, lateral_error : {-5, 0, 5},
            yaw_error : {-1, 0, 1}] :
        /\ (~p.has_left /\ ~p.has_right) => p.lateral_error = 0
        /\ (p.has_left /\ ~p.has_right) => p.lateral_error = 5
        /\ (~p.has_left /\ p.has_right) => p.lateral_error = -5}

\* line 287-309: _drive_row
drive_row(p) ==
    <<The(cfg).v_nominal,
      0 - The(cfg).Kp_lateral * p.lateral_error - The(cfg).Kp_yaw * p.yaw_error>>

\* line 311-320: _turn_at_end
turn_at_end == <<The(cfg).v_turn, (turn_direction * The(cfg).v_turn * 10) \div The(cfg).turn_radius>>

\* line 322-343: _enter_next_row
enter_next_row(p) ==
    <<The(cfg).v_enter,
      0 - (The(cfg).Kp_lateral * p.lateral_error) \div 2 - The(cfg).Kp_yaw * p.yaw_error>>

MaxTimer == 5

TimeSteps == {1, 2}

\* line 236-240: the perception is read and the timer advanced
Perceive(p, dt) ==
    /\ state_timer + dt <= MaxTimer
    /\ last_lateral_error' = p.lateral_error

\* mutant: the navigator is done one row late
RowsOver(r) == r > The(cfg).max_rows

\* line 265: if state.current_row >= cfg.max_rows
RowsDone(r) == r >= The(cfg).max_rows

\* line 243-252
StepDriveRow ==
    /\ current_state = "DRIVE_ROW"
    /\ \E p \in Perceptions, dt \in TimeSteps :
          /\ Perceive(p, dt)
          /\ command' = Some(drive_row(p))
          /\ IF ~p.has_left /\ ~p.has_right
             THEN /\ lane_stable_count' = 0
                  /\ current_state' = "TURN_AT_END"
                  /\ state_timer' = 0
             ELSE /\ state_timer' = state_timer + dt
                  /\ UNCHANGED <<lane_stable_count, current_state>>
    /\ UNCHANGED <<cfg, current_row, turn_direction, going_forward>>
    /\ UNCHANGED <<callVars, pc, layoutVars, compileVars, catalogVars, threadVars>>
    /\ UNCHANGED <<agentVars, runnerVars, sessionVars>>

\* line 254-266
StepTurnAtEnd ==
    /\ current_state = "TURN_AT_END"
    /\ \E p \in Perceptions, dt \in TimeSteps :
          /\ Perceive(p, dt)
          /\ command' = Some(turn_at_end)
          /\ IF state_timer + dt > The(cfg).turn_time
             THEN /\ state_timer' = 0
                  /\ current_row' = current_row + 1
                  /\ turn_direction' = 0 - turn_direction
                  /\ going_forward' = ~going_forward
                  /\ current_state' = IF RowsDone(current_row + 1)
                                      THEN "DONE" ELSE "ENTER_NEXT_ROW"
             ELSE /\ state_timer' = state_timer + dt
                  /\ UNCHANGED <<current_row, turn_direction, going_forward, current_state>>
    /\ UNCHANGED <<cfg, lane_stable_count>>
    /\ UNCHANGED <<callVars, pc, layoutVars, compileVars, catalogVars, threadVars>>
    /\ UNCHANGED <<agentVars, runnerVars, sessionVars>>

\* line 268-280
StepEnterNextRow ==
    /\ current_state = "ENTER_NEXT_ROW"
    /\ \E p \in Perceptions, dt \in TimeSteps :
          /\ Perceive(p, dt)
          /\ command' = Some(enter_next_row(p))
          /\ state_timer' = state_timer + dt
          /\ IF p.has_left /\ p.has_right
             THEN IF lane_stable_count + 1 >= The(cfg).lane_stable_steps
                  THEN current_state' = "DRIVE_ROW" /\ lane_stable_count' = 0
                  ELSE current_state' = current_state
                           /\ lane_stable_count' = lane_stable_count + 1
             ELSE current_state' = current_state /\ lane_stable_count' = 0
    /\ UNCHANGED <<cfg, current_row, turn_direction, going_forward>>
    /\ UNCHANGED <<callVars, pc, layoutVars, compileVars, catalogVars, threadVars>>
    /\ UNCHANGED <<agentVars, runnerVars, sessionVars>>

\* line 282-285
StepDone ==
    /\ current_state = "DONE"
    /\ \E p \in Perceptions, dt \in TimeSteps :
          /\ Perceive(p, dt)
          /\ command' = Some(<<0, 0>>)
          /\ state_timer' = state_timer + dt
    /\ UNCHANGED <<cfg, current_state, current_row, turn_direction, going_forward,
                   lane_stable_count>>
    /\ UNCHANGED <<callVars, pc, layoutVars, compileVars, catalogVars, threadVars>>
    /\ UNCHANGED <<agentVars, runnerVars, sessionVars>>

MaxNavRows == 2

MaxStableSteps == 2

NavigatorConfigs ==
    {NavigatorConfig(m, s, t) : m \in 0..MaxNavRows, s \in 1..MaxStableSteps, t \in {1, 3}}

\* RowNavigator(model, config): self.state = NavigatorState(), line 56-65 and 92
InitNavigator ==
    /\ mode = "navigator"
    /\ seed = 0
    /\ scene = NoScene
    /\ obj = NoObject
    /\ call = 1
    /\ first = None
    /\ pc = "off"
    /\ NoLocals
    /\ NoDocument
    /\ NoCatalog
    /\ NoThread
    /\ NoAgent /\ NoRunner /\ NoSession
    /\ cfg \in {Some(c) : c \in NavigatorConfigs}
    /\ current_state = "DRIVE_ROW"
    /\ current_row = 0
    /\ turn_direction = 1
    /\ state_timer = 0
    /\ lane_stable_count = 0
    /\ last_lateral_error = 0
    /\ going_forward = TRUE
    /\ command = None

NextNavigator ==
    \/ StepDriveRow
    \/ StepTurnAtEnd
    \/ StepEnterNextRow
    \/ StepDone

SpecNavigator == InitNavigator /\ [][NextNavigator]_vars

\* C24: current_row never exceeds max_rows; the state becomes DONE only by a
\* step taken in TURN_AT_END that brings current_row to max_rows; and a step
\* taken in DONE leaves the state DONE, leaves current_row, turn_direction and
\* going_forward as they were and returns (v, omega) = (0, 0).
C24_StopsAfterMaxRows ==
    /\ [](mode = "navigator" => current_row <= The(cfg).max_rows)
    /\ [][mode = "navigator" =>
            /\ (current_state # "DONE" /\ current_state' = "DONE") =>
                  /\ current_state = "TURN_AT_END"
                  /\ current_row < The(cfg).max_rows
                  /\ current_row' = The(cfg).max_rows
            /\ current_state = "DONE" =>
                  /\ current_state' = "DONE"
                  /\ current_row' = current_row
                  /\ turn_direction' = turn_direction
                  /\ going_forward' = going_forward
                  /\ command' = Some(<<0, 0>>)]_vars

\* the same for a navigator configured with max_rows >= 1
C24_StopsAfterMaxRowsFromOne ==
    /\ [](mode = "navigator" /\ The(cfg).max_rows >= 1 => current_row <= The(cfg).max_rows)
    /\ [][mode = "navigator" /\ The(cfg).max_rows >= 1 =>
            /\ (current_state # "DONE" /\ current_state' = "DONE") =>
                  /\ current_state = "TURN_AT_END"
                  /\ current_row < The(cfg).max_rows
                  /\ current_row' = The(cfg).max_rows
            /\ current_state = "DONE" =>
                  /\ current_state' = "DONE"
                  /\ current_row' = current_row
                  /\ turn_direction' = turn_direction
                  /\ going_forward' = going_forward
                  /\ command' = Some(<<0, 0>>)]_vars

\* a navigator that is done after two rows has stepped once more
C24_Witness ==
    /\ mode = "navigator"
    /\ The(cfg).max_rows = 2
    /\ current_state = "DONE"
    /\ current_row = 2
    /\ state_timer > 0
    /\ command = Some(<<0, 0>>)

(***************************************************************************)
(* TaskRunner, src/neoscene/backends/task_runner.py, for a runner that     *)
(* detected the tractor body and both motors.                              *)
(*                                                                         *)
(* Positions are whole metres, the yaw is in quarter turns, a wheel speed  *)
(* is in hundredths of m/s.  The waypoints of a path lie on segments       *)
(* parallel to an axis and the robot moves one metre along an axis between *)
(* two steps, so that every np.hypot the code takes of a segment or of a   *)
(* move is a whole number; distances that are only compared are compared   *)
(* on their squares.                                                       *)
(***************************************************************************)
MaxX == 3

MaxDistance == 4

Waypoint(wx, wy) == [x |-> wx, y |-> wy]

\* PathSpec, as TaskRunner reads it: name, waypoints, loop
PathSpec(name, waypoints, loop) == [name |-> name, waypoints |-> waypoints, loop |-> loop]

\* TaskSpec, as TaskRunner reads it: name, path_name, speed, repeat
TaskSpec(name, path_name, speed, repeat) ==
    [name |-> name, path_name |-> path_name, speed |-> speed, repeat |-> repeat]

\* line 20-29
ActiveTask(task, path, lookahead, position) ==
    [task |-> task, path |-> path, lookahead |-> lookahead, current_index |-> 0,
     finished |-> FALSE, distance_traveled |-> 0, last_position |-> position]

\* line 52: self.lookahead_distance
lookahead_distance == 3

\* line 53: self.finish_threshold = 1.5, as four times its square
finish_threshold_sq4 == 9

\* line 49: self._wheelbase
wheelbase == 2

\* line 280: max_speed = 5.0
max_speed == 500

Abs(n) == IF n < 0 THEN 0 - n ELSE n

SqDist(px, py, qx, qy) == (px - qx) * (px - qx) + (py - qy) * (py - qy)

\* line 171-173
is_active(a) == a # None /\ ~The(a).finished

\* line 175-188
get_status(a) ==
    IF a = None
    THEN [active |-> FALSE]
    ELSE [active |-> TRUE, task_name |-> The(a).task.name, path_name |-> The(a).path.name,
          waypoint_index |-> The(a).current_index,
          total_waypoints |-> Len(The(a).path.waypoints),
          distance_traveled |-> The(a).distance_traveled, finished |-> The(a).finished]

\* line 217-219: int(np.argmin(dists)), the first of the closest waypoints
Closest(pts, px, py) ==
    CHOOSE k \in 1..Len(pts) :
        /\ \A j \in 1..Len(pts) :
              SqDist(pts[k].x, pts[k].y, px, py) <= SqDist(pts[j].x, pts[j].y, px, py)
        /\ \A j \in 1..(k - 1) :
              SqDist(pts[j].x, pts[j].y, px, py) > SqDist(pts[k].x, pts[k].y, px, py)

\* line 226-231: the march along the path until the lookahead is covered
RECURSIVE March(_, _, _, _)
March(pts, target_idx, accum, L) ==
    IF target_idx < Len(pts) /\ accum < L
    THEN March(pts, target_idx + 1,
               accum + Abs(pts[target_idx + 1].x - pts[target_idx].x)
                     + Abs(pts[target_idx + 1].y - pts[target_idx].y), L)
    ELSE target_idx

\* line 207-233: _find_target, the index of the target among the waypoints (from 1)
find_target(a, px, py) == March(a.path.waypoints, Closest(a.path.waypoints, px, py), 0, a.lookahead)

\* line 281-282: np.clip
clip(v) == IF v > max_speed THEN max_speed ELSE IF v < 0 - max_speed THEN 0 - max_speed ELSE v

\* line 260-286: the wheel speeds pure pursuit sets for a target
WheelSpeeds(a, pose, target) ==
    LET dx == target.x - pose.x
        dy == target.y - pose.y
        x_robot == Cos(pose.yaw) * dx + Sin(pose.yaw) * dy
        y_robot == Cos(pose.yaw) * dy - Sin(pose.yaw) * dx
        Ld2 == x_robot * x_robot + y_robot * y_robot
        v == a.task.speed * 100
        \* kappa * wheelbase / 2 = wheelbase * y_robot / Ld^2; Ld = 0.1 only for y_robot = 0
        turn == IF Ld2 = 0 THEN 0 ELSE (v * wheelbase * y_robot) \div Ld2
    IN [left |-> clip(v - turn), right |-> clip(v + turn)]

\* line 289-293: at_end
AtEnd(a, pose) ==
    LET pts == a.path.waypoints
    IN /\ find_target(a, pose.x, pose.y) >= Len(pts)
       /\ 4 * SqDist(pose.x, pose.y, pts[Len(pts)].x, pts[Len(pts)].y) < finish_threshold_sq4

AttributeError(message) == [type |-> "AttributeError", message |-> message]

RunnerOthers ==
    /\ UNCHANGED <<callVars, pc, layoutVars, compileVars, catalogVars, threadVars>>
    /\ UNCHANGED <<agentVars, navigatorVars, sessionVars>>

\* the tasks and paths of the scene set on the runner
RunnerPaths ==
    {PathSpec("short", <<Waypoint(0, 0), Waypoint(2, 0)>>, l) : l \in BOOLEAN}
        \cup {PathSpec("bend", <<Waypoint(0, 0), Waypoint(MaxX, 0), Waypoint(MaxX, 1)>>, FALSE)}

RunnerTasks == {<<TaskSpec("go", p.name, 2, r), p>> : p \in RunnerPaths, r \in BOOLEAN}

\* line 109-157: start_task finds the task and its path
StartTask ==
    /\ mode = "runner"
    /\ active = None
    /\ stepped = None
    /\ \E t \in RunnerTasks :
          active' = Some(ActiveTask(t[1], t[2], lookahead_distance, <<xpos.x, xpos.y>>))
    /\ UNCHANGED <<ctrl, xpos, stepped>>
    /\ RunnerOthers

\* line 159-169: the effect of stop_task on the runner
Stopped ==
    /\ active' = None
    /\ ctrl' = [left |-> 0, right |-> 0]

StopTask ==
    /\ mode = "runner"
    /\ stepped = None
    /\ Stopped
    /\ UNCHANGED <<xpos, stepped>>
    /\ RunnerOthers

\* line 241-242: no active task, or a finished one: return
StepIdle ==
    /\ mode = "runner"
    /\ stepped = None
    /\ ~is_active(active)
    /\ stepped' = Some(Returned(None))
    /\ UNCHANGED <<active, ctrl, xpos>>
    /\ RunnerOthers

\* line 250-258: the distance travelled and the target are updated
Advanced(a, pose) ==
    [a EXCEPT !.distance_traveled = @ + Abs(pose.x - a.last_position[1])
                                      + Abs(pose.y - a.last_position[2]),
              !.last_position = <<pose.x, pose.y>>,
              !.current_index = find_target(a, pose.x, pose.y) - 1]

\* line 247-286, then at_end is false, or line 295-298: the path starts over
StepPursue ==
    /\ mode = "runner"
    /\ stepped = None
    /\ is_active(active)
    /\ LET a == Advanced(The(active), xpos)
           looping == AtEnd(The(active), xpos)
       IN /\ a.distance_traveled <= MaxDistance
          /\ ~looping \/ a.path.loop \/ a.task.repeat
          /\ active' = Some(IF looping THEN [a EXCEPT !.current_index = 0] ELSE a)
          /\ ctrl' = WheelSpeeds(a, xpos, a.path.waypoints[find_target(a, xpos.x, xpos.y)])
    /\ stepped' = Some(Returned(None))
    /\ UNCHANGED xpos
    /\ RunnerOthers

\* line 295 and 299: at_end on a path that does not loop, for a task that does not repeat
Completes(a) == AtEnd(a, xpos) /\ ~a.path.loop /\ ~a.task.repeat

\* line 247-286, then line 299-303: finished = True, stop_task(), and the log
\* message that reads self.active.task.name of the active task stop_task removed
StepFinish ==
    /\ mode = "runner"
    /\ stepped = None
    /\ is_active(active)
    /\ Advanced(The(active), xpos).distance_traveled <= MaxDistance
    /\ Completes(The(active))
    /\ Stopped
    /\ stepped' = Some(Raised(AttributeError("'NoneType' object has no attribute 'task'")))
    /\ UNCHANGED xpos
    /\ RunnerOthers

\* mj_step between two steps: the robot stays, moves a metre or turns a quarter
Moves(pose) ==
    {pose}
        \cup {[pose EXCEPT !.x = @ + d] : d \in {-1, 1}}
        \cup {[pose EXCEPT !.y = @ + d] : d \in {-1, 1}}
        \cup {[pose EXCEPT !.yaw = (@ + 1) % NumDirections]}

MjStep ==
    /\ mode = "runner"
    /\ stepped # None
    /\ \E pose \in Moves(xpos) :
          /\ pose.x \in 0..MaxX /\ pose.y \in 0..1
          /\ xpos' = pose
    /\ stepped' = None
    /\ UNCHANGED <<active, ctrl>>
    /\ RunnerOthers

InitRunner ==
    /\ mode = "runner"
    /\ seed = 0
    /\ scene = NoScene
    /\ obj = NoObject
    /\ call = 1
    /\ first = None
    /\ pc = "off"
    /\ NoLocals
    /\ NoDocument
    /\ NoCatalog
    /\ NoThread
    /\ NoAgent /\ NoNavigator /\ NoSession
    /\ active = None
    /\ ctrl = [left |-> 0, right |-> 0]
    /\ xpos \in [x : {0, 1}, y : {0}, yaw : {0}]
    /\ stepped = None

NextRunner ==
    \/ StartTask
    \/ StopTask
    \/ StepIdle
    \/ StepPursue
    \/ StepFinish
    \/ MjStep

SpecRunner == InitRunner /\ [][NextRunner]_vars

\* C26: a step taken with an active task whose path does not loop and whose
\* task does not repeat, when the target is the last waypoint and the robot is
\* closer to it than finish_threshold, returns without raising and leaves no
\* active task (is_active() false, get_status() = {active: False}) and both
\* motor controls 0; a step taken when no task is active changes nothing.
C26_FinishCompletes ==
    [][(mode = "runner" /\ stepped = None /\ stepped' # None) =>
          /\ (/\ is_active(active)
              /\ ~The(active).path.loop
              /\ ~The(active).task.repeat
              /\ find_target(The(active), xpos.x, xpos.y) = Len(The(active).path.waypoints)
              /\ 4 * SqDist(xpos.x, xpos.y,
                            The(active).path.waypoints[Len(The(active).path.waypoints)].x,
                            The(active).path.waypoints[Len(The(active).path.waypoints)].y) < 9)
             => /\ The(stepped').kind = "returned"
                /\ ~is_active(active')
                /\ get_status(active') = [active |-> FALSE]
                /\ ctrl' = [left |-> 0, right |-> 0]
          /\ active = None
             => /\ The(stepped').kind = "returned"
                /\ active' = None
                /\ ctrl' = ctrl]_vars

(***************************************************************************)
(* SimulationWorker and SceneSessionManager.update_scene,                  *)
(* src/neoscene/backends/session_manager.py.                               *)
(*                                                                         *)
(* One session is open.  The caller of the manager is one thread; every    *)
(* SimulationWorker has its own daemon thread, which runs worker.loop.     *)
(* A worker is kept after the session has dropped it, since its thread     *)
(* may still run.  What MuJoCo does with a model (load it or refuse it,    *)
(* step it or raise) is a choice of each step.  update_scene is two steps  *)
(* of the caller: up to worker.stop(), and from the return of              *)
(* sim_thread.join(timeout=1) on; join returns when the thread has ended   *)
(* or the second has passed, so the worker's thread may or may not have    *)
(* acted in between.                                                       *)
(***************************************************************************)
MaxWorkers == 2

MaxStepsAfterStop == 2

\* SimulationWorker(xml_path=...), line 31-46, with the position of its thread
SimulationWorker(xml_path) ==
    [xml_path |-> xml_path, running |-> FALSE, at |-> "start",
     stop_called |-> FALSE, steps_after_stop |-> 0]

\* SceneSession(session_id=...), line 309-318
SceneSession ==
    [last_scene |-> None, viewer_process |-> None, temp_xml_path |-> None,
     sim_worker |-> None, sim_thread |-> None]

SessionOthers ==
    /\ UNCHANGED <<callVars, pc, layoutVars, compileVars, catalogVars, threadVars>>
    /\ UNCHANGED <<agentVars, navigatorVars, runnerVars>>

\* line 121-122 and 48-61: start() loads the model from xml_path and sets running
WorkerStart(w) ==
    /\ w \in DOMAIN workers
    /\ workers[w].at = "start"
    /\ workers[w].xml_path \in files
    /\ workers' = [workers EXCEPT ![w].running = TRUE,
                                  ![w].at = "while"]
    /\ UNCHANGED <<session, files, viewers, spc>>
    /\ SessionOthers

\* line 121-125: from_xml_path raises (no such file, or a model MuJoCo refuses):
\* loop logs the error and returns
WorkerStartFails(w) ==
    /\ w \in DOMAIN workers
    /\ workers[w].at = "start"
    /\ workers' = [workers EXCEPT ![w].at = "exited"]
    /\ UNCHANGED <<session, files, viewers, spc>>
    /\ SessionOthers

\* line 127: while self.running
WorkerCheck(w) ==
    /\ w \in DOMAIN workers
    /\ workers[w].at = "while"
    /\ workers' = [workers EXCEPT ![w].at = IF workers[w].running THEN "body" ELSE "exited"]
    /\ UNCHANGED <<session, files, viewers, spc>>
    /\ SessionOthers

\* line 128-133: one iteration: controls, mj_step, sensors, camera, sleep
WorkerIterate(w) ==
    /\ w \in DOMAIN workers
    /\ workers[w].at = "body"
    /\ workers' = [workers EXCEPT
           ![w].at = "while",
           ![w].steps_after_stop =
               IF workers[w].stop_called /\ @ < MaxStepsAfterStop THEN @ + 1 ELSE @]
    /\ UNCHANGED <<session, files, viewers, spc>>
    /\ SessionOthers

\* line 134-138: the iteration raises: the error is logged and the loop left
WorkerIterateRaises(w) ==
    /\ w \in DOMAIN workers
    /\ workers[w].at = "body"
    /\ workers' = [workers EXCEPT ![w].at = "exited"]
    /\ UNCHANGED <<session, files, viewers, spc>>
    /\ SessionOthers

\* a step of the thread of worker w
WorkerStep(w) ==
    \/ WorkerStart(w)
    \/ WorkerStartFails(w)
    \/ WorkerCheck(w)
    \/ WorkerIterate(w)
    \/ WorkerIterateRaises(w)

\* the user closes the viewer's window: the viewer process ends
ViewerExits ==
    /\ mode = "session"
    /\ \E v \in DOMAIN viewers :
          /\ viewers[v] = "alive"
          /\ viewers' = [viewers EXCEPT ![v] = "exited"]
    /\ UNCHANGED <<session, workers, files, spc>>
    /\ SessionOthers

\* line 298-306: SimulationWorker.stop
stop(w) == [w EXCEPT !.running = FALSE, !.stop_called = TRUE]

\* scene_to_mjcf(scene, self.catalog) raises, line 420
CompileRaises(sc) ==
    \E id \in {sc.environment.asset_id} \cup ObjectAssetIds(sc) :
        IF GetRaises(id) THEN TRUE ELSE ReadRaises(Files[id])

SessionScenes ==
    { SceneSpec("yard", EnvironmentSpec("ground"), <<ObjectSpec("crate", None, None, None)>>,
                <<>>, <<>>),
      SceneSpec("wood", EnvironmentSpec("ground"), <<ObjectSpec("tree", None, None, None)>>,
                <<>>, <<>>),
      SceneSpec("void", EnvironmentSpec("ground"), <<ObjectSpec("ghost", None, None, None)>>,
                <<>>, <<>>) }

\* what a call of update_scene found: the session, and whether its viewer
\* process, its worker and its temp file were as the session says
Before ==
    [session |-> session,
     viewer_alive |-> session.viewer_process # None
                         /\ viewers[The(session.viewer_process)] = "alive",
     temp_file |-> session.temp_xml_path # None /\ The(session.temp_xml_path) \in files]

\* line 395-416: last_scene is set; _kill_viewer; _stop_sim_worker up to worker.stop()
UpdateSceneBegin ==
    /\ mode = "session"
    /\ spc.at = "idle"
    /\ Len(workers) < MaxWorkers
    /\ \E sc \in SessionScenes :
          /\ session' = [session EXCEPT !.last_scene = Some(sc), !.viewer_process = None]
          /\ spc' = [at |-> "join", scene |-> Some(sc), before |-> Some(Before),
                     raised |-> FALSE]
    /\ viewers' = IF session.viewer_process # None
                  THEN [viewers EXCEPT ![The(session.viewer_process)] =
                            IF @ = "alive" THEN "killed" ELSE @]
                  ELSE viewers
    /\ workers' = IF session.sim_worker # None
                  THEN [workers EXCEPT ![The(session.sim_worker)] = stop(@)]
                  ELSE workers
    /\ UNCHANGED files
    /\ SessionOthers

\* the temp file of this call
NewPath == Len(workers) + 1

\* line 381-384 and 417: join has returned; the worker and its thread are dropped,
\* the temp file is removed
Dropped ==
    [session EXCEPT !.sim_worker = None, !.sim_thread = None, !.temp_xml_path = None]

\* line 420: scene_to_mjcf raises, and update_scene with it
UpdateSceneRaises ==
    /\ mode = "session"
    /\ spc.at = "join"
    /\ CompileRaises(The(spc.scene))
    /\ session' = Dropped
    /\ files' = files \ session.temp_xml_path
    /\ spc' = [spc EXCEPT !.at = "idle", !.raised = TRUE]
    /\ UNCHANGED <<workers, viewers>>
    /\ SessionOthers

\* line 420-470: the document is written to a new temp file, the viewer is
\* launched (a Popen that fails is ignored), the worker is created and its thread
\* started
UpdateSceneFinish ==
    /\ mode = "session"
    /\ spc.at = "join"
    /\ ~CompileRaises(The(spc.scene))
    /\ files' = (files \ session.temp_xml_path) \cup {NewPath}
    /\ workers' = Append(workers, SimulationWorker(NewPath))
    /\ \E launched \in BOOLEAN :
          /\ viewers' = IF launched THEN Append(viewers, "alive") ELSE viewers
          /\ session' = [Dropped EXCEPT
                 !.temp_xml_path = Some(NewPath),
                 !.viewer_process = IF launched THEN Some(Len(viewers) + 1) ELSE None,
                 !.sim_worker = Some(Len(workers) + 1),
                 !.sim_thread = Some(Len(workers) + 1)]
    /\ spc' = [spc EXCEPT !.at = "idle"]
    /\ SessionOthers

\* line 472-502
describe_scene ==
    IF session.last_scene = None
    THEN [has_scene |-> FALSE]
    ELSE [has_scene |-> TRUE,
          scene_name |-> The(session.last_scene).name,
          environment_asset_id |-> The(session.last_scene).environment.asset_id,
          object_count |-> Len(The(session.last_scene).objects),
          camera_count |-> Len(The(session.last_scene).cameras),
          viewer_running |-> session.viewer_process # None
                                 /\ viewers[The(session.viewer_process)] = "alive",
          sim_running |-> session.sim_worker # None
                              /\ workers[The(session.sim_worker)].running]

\* get_or_create_session(None), line 339-355
InitSession ==
    /\ mode = "session"
    /\ seed = 0
    /\ scene = NoScene
    /\ obj = NoObject
    /\ call = 1
    /\ first = None
    /\ pc = "off"
    /\ NoLocals
    /\ NoDocument
    /\ NoCatalog
    /\ NoThread
    /\ NoAgent /\ NoNavigator /\ NoRunner
    /\ session = SceneSession
    /\ workers = <<>>
    /\ files = {}
    /\ viewers = <<>>
    /\ spc = [at |-> "idle", scene |-> None, before |-> None, raised |-> FALSE]

NextSession ==
    \/ UpdateSceneBegin
    \/ UpdateSceneRaises
    \/ UpdateSceneFinish
    \/ ViewerExits
    \/ \E w \in 1..MaxWorkers : WorkerStart(w)
    \/ \E w \in 1..MaxWorkers : WorkerStartFails(w)
    \/ \E w \in 1..MaxWorkers : WorkerCheck(w)
    \/ \E w \in 1..MaxWorkers : WorkerIterate(w)
    \/ \E w \in 1..MaxWorkers : WorkerIterateRaises(w)

\* every thread that can take a step is scheduled sooner or later
SpecSession ==
    /\ InitSession
    /\ [][NextSession]_vars
    /\ \A w \in 1..MaxWorkers : WF_vars(WorkerStep(w))

\* stop() has been called on worker w
StopCalled(w) == IF w \in DOMAIN workers THEN workers[w].stop_called ELSE FALSE

\* the loop of worker w has returned
Exited(w) == IF w \in DOMAIN workers THEN workers[w].at = "exited" ELSE FALSE

(***************************************************************************)
(* Claims C25, C27 and C28.                                                *)
(***************************************************************************)
\* C25: a worker whose loop has exited (after stop(), after a start() that
\* failed, or after an iteration that raised) has running = False, and
\* describe_scene reports sim_running = True only for a worker whose loop has
\* not ended.
C25_RunningOnlyWhileLooping ==
    mode = "session" =>
        /\ \A w \in DOMAIN workers : workers[w].at = "exited" => ~workers[w].running
        /\ (session.last_scene # None /\ describe_scene.sim_running)
               => workers[The(session.sim_worker)].at # "exited"

\* C27: once stop() has been called on a worker, its loop thread takes no
\* simulation step beyond the iteration it was in, whatever the thread had done
\* of start() when stop() was called.
C27_StoppedWorkerStops ==
    mode = "session" => \A w \in DOMAIN workers : workers[w].steps_after_stop <= 1

\* once stop() has been called on a worker, its loop thread eventually exits
StoppedWorkerExits ==
    \A w \in 1..MaxWorkers :
        [](StopCalled(w) => <>Exited(w))

\* C28: when update_scene raises because the scene does not compile, the
\* session is as the call found it: the same last_scene, viewer process,
\* worker, thread and temp file, with the viewer process not killed, the worker
\* not stopped and the temp file still on disk.
C28_FailedUpdateKeepsSession ==
    (mode = "session" /\ spc.at = "idle" /\ spc.raised) =>
        LET before == The(spc.before)
        IN /\ session = before.session
           /\ before.viewer_alive
                 => viewers[The(before.session.viewer_process)] # "killed"
           /\ before.session.sim_worker # None
                 => ~workers[The(before.session.sim_worker)].stop_called
           /\ before.temp_file => The(before.session.temp_xml_path) \in files

(***************************************************************************)
(* Claim C30: the indices of the catalog after a scan,                     *)
(* src/neoscene/core/asset_catalog.py.                                     *)
(***************************************************************************)
\* len(catalog), line 445-447
len == Len(by_id)

\* the number of k with seq[k] = v
Count(seq, v) == Cardinality({k \in 1..Len(seq) : seq[k] = v})

\* the asset_ids of the manifests that loaded
LoadedIds == {manifests[k].data.asset_id : k \in {j \in 1..scanned : ~LoadRaises(manifests[j])}}

\* C30: after a scan the indices agree: every asset_id that loaded is a key of
\* the id index and of the path index, is once in the summary list and once in
\* the list of its category, and len(catalog) is the number of summaries
\* list_all() returns, also when two manifest files declare the same asset_id.
C30_IndicesAgree ==
    (mode = "catalog" /\ cpc # "scan") =>
        /\ \A aid \in LoadedIds :
              /\ DictHas(by_id, aid)
              /\ DictHas(paths, aid)
              /\ Count(list_all(None), aid) = 1
              /\ Count(DictGet(by_category, DictGet(by_id, aid).category), aid) = 1
        /\ len = Len(list_all(None))

\* the same, of a tree in which no two manifests that load declare one asset_id
IndicesAgreeOfDistinctIds ==
    (mode = "catalog" /\ cpc # "scan"
        /\ \A j, k \in 1..Len(manifests) :
              (j # k /\ ~LoadRaises(manifests[j]) /\ ~LoadRaises(manifests[k]))
                 => manifests[j].data.asset_id # manifests[k].data.asset_id) =>
        /\ \A aid \in LoadedIds :
              /\ DictHas(by_id, aid)
              /\ DictHas(paths, aid)
              /\ Count(list_all(None), aid) = 1
              /\ Count(DictGet(by_category, DictGet(by_id, aid).category), aid) = 1
        /\ len = Len(list_all(None))

=============================================================================
